---------------------------- MODULE Spec2Model ----------------------------
(***************************************************************************)
(* Motion-control IPC and safety layer of nrs_llm: the control-side proxy  *)
(* (src/api.py), the motion process and its RTDE backend (src/env.py) and  *)
(* the duplex pipe between them (src/main.py).                             *)
(*                                                                         *)
(* Number encoding.  Lengths are integers in millimetres, linear speeds in *)
(* mm/s, joint speeds in mrad/s, accelerations in mm/s^2 resp. mrad/s^2,   *)
(* times in milliseconds, and the angles of a pose in half turns (pi rad), *)
(* so that sin and cos of every angle of the model are exact integers.     *)
(* A Python value that reaches float() is a record [k, v]: k = "num" for a *)
(* finite number v, "nan" for float('nan'), "none" for None and "str" for  *)
(* an object float() rejects.  A Python argument that should be a list is  *)
(* a record [isList, items].  A value travelling on the pipe is a record   *)
(* [list, f]: list says whether it is a list/tuple and f holds its fields. *)
(***************************************************************************)
EXTENDS Integers, Sequences, FiniteSets, TLC

\* ------------------------------------------------------------- bounds
\* Largest number of packets waiting in the control -> motion direction.
MaxQueue == 1
\* Largest number of packets written to the control -> motion direction in a run.
MaxSends == 2
\* Robot workspace: the driver refuses a target outside |coord| <= MaxReach (mm).
MaxReach == 300
\* Last instant of the control-side clock (ms), and its coarse step.
MaxTime == 2000
TickStep == 1000
MaxSleep == 70
\* Most calls of backend.shutdown() made on one backend.
MaxShutdowns == 2

\* -------------------------------------------------- program constants
SAFE_MAX_STEP_M == 200
SAFE_MIN_STEP_M == 5
SAFE_DEFAULT_SPEED == 50
SAFE_MIN_SPEED == 10
SAFE_MAX_SPEED == 250
\* clamp(float(speed), 0.01, 0.25) and clamp(float(speed), 0.05, 1.5)
LIN_SPEED_LO == 10
LIN_SPEED_HI == 250
JOINT_SPEED_LO == 50
JOINT_SPEED_HI == 1500
\* clamp(accel, 0.05, 1.5) in moveL, clamp(accel, 0.2, 5.0) in moveJ
LIN_ACCEL_LO == 50
LIN_ACCEL_HI == 1500
JOINT_ACCEL_LO == 200
JOINT_ACCEL_HI == 5000
\* os.getenv defaults: UR_SPEED, UR_JOINT_SPEED, UR_ACCEL, UR_JOINT_ACCEL
UR_SPEED == 50
UR_JOINT_SPEED == 300
UR_ACCEL == 200
UR_JOINT_ACCEL == 1000
\* guard = min(0.5, 0.1 + 0.1 * seconds)
GUARD_MAX == 500
SLEEP_S == 50
GUARD_BASE == 100

\* ------------------------------------------------------ Python values
Num(n) == [k |-> "num", v |-> n]
PyNaN == [k |-> "nan", v |-> 0]
PyNone == [k |-> "none", v |-> 0]
PyStr == [k |-> "str", v |-> 0]
PyList(s) == [isList |-> TRUE, items |-> s]
PyObj == [isList |-> FALSE, items |-> <<>>]
Msg(fields) == [list |-> TRUE, f |-> fields]
NonList == [list |-> FALSE, f |-> <<>>]

\* float(x) raises for None and for a non-numeric object.
FloatRaises(x) == x.k \in {"none", "str"}
\* a < b on floats: every comparison with NaN is false.
PyLt(a, b) == a.k = "num" /\ b.k = "num" /\ a.v < b.v
\* Python's min(a, b) and max(a, b): the first argument is kept unless the
\* second is strictly smaller (resp. larger).
PyMin(a, b) == IF PyLt(b, a) THEN b ELSE a
PyMax(a, b) == IF PyLt(a, b) THEN b ELSE a

RECURSIVE SumSq(_)
SumSq(s) == IF s = <<>> THEN 0 ELSE Head(s) * Head(s) + SumSq(Tail(s))
\* math.sqrt on the model's numbers (exact on perfect squares).
RECURSIVE SqrtBetween(_, _, _)
SqrtBetween(n, lo, hi) ==
  IF hi - lo <= 1 THEN lo
  ELSE LET mid == (lo + hi) \div 2
       IN IF mid <= n \div mid THEN SqrtBetween(n, mid, hi) ELSE SqrtBetween(n, lo, mid)
Sqrt(n) == SqrtBetween(n, 0, n + 1)
Abs(n) == IF n < 0 THEN -n ELSE n

\* sin and cos of t half turns, and of t quarter turns.
SinPi(t) == 0 * t
CosPi(t) == IF t % 2 = 0 THEN 1 ELSE -1
SinHalfPi(t) == CASE t % 4 = 1 -> 1 [] t % 4 = 3 -> -1 [] OTHER -> 0
CosHalfPi(t) == CASE t % 4 = 0 -> 1 [] t % 4 = 2 -> -1 [] OTHER -> 0
\* acos(w) in quarter turns, for w in {-1, 0, 1}.
AcosQuarter(w) == CASE w = 1 -> 0 [] w = 0 -> 1 [] OTHER -> 2

\* --------------------------------------------------- env.py utilities
\* Variant: the value is only limited from below.
clamp_NoUpper(v, lo, hi) == PyMax(Num(lo), v)

\* return max(lo, min(hi, v))
clamp(v, lo, hi) == PyMax(Num(lo), PyMin(Num(hi), v))

axis_angle_to_R(rx, ry, rz) ==
  LET theta == Sqrt(rx * rx + ry * ry + rz * rz)
  IN IF theta = 0 THEN << <<1, 0, 0>>, <<0, 1, 0>>, <<0, 0, 1>> >>
     ELSE LET kx == rx \div theta
              ky == ry \div theta
              kz == rz \div theta
              c == CosPi(theta)
              s == SinPi(theta)
              v == 1 - c
          IN << <<kx*kx*v + c,    kx*ky*v - kz*s, kx*kz*v + ky*s>>,
                <<ky*kx*v + kz*s, ky*ky*v + c,    ky*kz*v - kx*s>>,
                <<kz*kx*v - ky*s, kz*ky*v + kx*s, kz*kz*v + c>> >>

mat_vec3(M, v) ==
  << M[1][1]*v[1] + M[1][2]*v[2] + M[1][3]*v[3],
     M[2][1]*v[1] + M[2][2]*v[2] + M[2][3]*v[3],
     M[3][1]*v[1] + M[3][2]*v[2] + M[3][3]*v[3] >>

\* Variant: the quaternion is used as it comes.
quat_normalize_Skipped(q) == q

\* n < 1e-12: the identity; otherwise every component divided by n.
quat_normalize(q) ==
  LET n == Sqrt(SumSq(q))
  IN IF n = 0 THEN <<0, 0, 0, 1>>
     ELSE <<q[1] \div n, q[2] \div n, q[3] \div n, q[4] \div n>>

quat_to_axis_angle(q) ==
  LET qn == quat_normalize(q)
      w == clamp(Num(qn[4]), -1, 1).v
      angle == AcosQuarter(w)
      s == Sqrt(1 - w * w)
  IN IF s = 0
     THEN (IF angle # 0 THEN <<angle, 0, 0>> ELSE <<0, 0, 0>>)
     ELSE <<(qn[1] \div s) * angle, (qn[2] \div s) * angle, (qn[3] \div s) * angle>>

axis_angle_to_quat(rx, ry, rz) ==
  LET theta == Sqrt(rx * rx + ry * ry + rz * rz)
  IN IF theta = 0 THEN <<0, 0, 0, 1>>
     ELSE LET s == SinHalfPi(theta)
              c == CosHalfPi(theta)
          IN <<(rx \div theta) * s, (ry \div theta) * s, (rz \div theta) * s, c>>


VARIABLES
  now,          \* time.time(), ms
  toEnv,        \* pipe, control -> motion (parent_conn.send / child_conn.recv)
  toCtl,        \* pipe, motion -> control.  observed: every packet sent and not
                \* yet read; otherwise what the loop sent for the packet it is
                \* handling (the control side has read everything older)
  observed,     \* the pipe motion -> control is followed packet by packet
  emitLog,      \* observed: for every packet the motion process wrote to the pipe,
                \* in order, the number of packets the loop had received
  delivered,    \* observed: the number of packets the control side has read
  parentOpen,   \* the control side still holds its end of the pipe
  sends,        \* packets written to toEnv so far
  envPc,        \* "start" (Connecting), "recv" (Running, blocked in recv),
                \* "driver" (Running, inside rtde_c.moveL/moveJ), "done"
  rtde_c,       \* backend.rtde_c is not None
  rtde_r,       \* backend.rtde_r is not None
  linkC,        \* the driver's control link: "closed", "open", or "failed"
                \* (disconnect() was called on it and raised)
  linkR,        \* the driver's telemetry link, likewise
  moving,       \* backend._moving
  lastCmdText,  \* backend._last_cmd_text
  robot,        \* the arm's actual TCP pose <<x, y, z, rx, ry, rz>>
  joints,       \* the arm's actual joint angles
  drv,          \* the driver motion call in progress (op = "none": no call)
  inFlight,     \* number of driver motions the arm is executing
  cur,          \* the packet the motion loop received last
  prevUnknown,  \* the packet received before cur was a list with an unknown tag
  emitted,      \* packets the motion process sent since it received cur
  drvCalls,     \* driver motion calls made since it received cur
  excepted,     \* an exception was raised while dispatching cur
  everRan,      \* the loop has called recv at least once
  shutdowns,    \* calls of backend.shutdown() so far
  shutCalls,    \* driver calls made by the last backend.shutdown()
  drvResult,    \* how the driver call made for cur ended: "none" (no call ended),
                \* "ok" (returned True), "false" (returned False), "raise"
  busy,         \* API._busy
  readyAt,      \* API._ready_at
  cache,        \* API._tool_pos_cache
  apiCall,      \* the last call made on the proxy and how it ended
  motion,       \* the last motion request the proxy sent: when, predicted duration
  api_connected,  \* API._connected
  api_backend,  \* API._backend
  last_status,  \* API._last_status (NonList: None)
  completed,    \* API.completed
  task_success, \* API._task_success: "None", "True" or "False"
  ingested,     \* the message given to ingest_env_message last
  last_command, \* API.last_command
  waitPc,       \* wait_until_idle: "none" (not running), "loop" (at the while
                \* test), "sleep" (in time.sleep(0.05))
  deadline      \* wait_until_idle's deadline, ms

envVars == <<envPc, rtde_c, rtde_r, linkC, linkR, moving, lastCmdText, robot,
             joints, drv, inFlight, cur, prevUnknown, emitted, drvCalls, excepted,
             everRan, shutdowns, shutCalls, drvResult>>

ZeroPose == <<0, 0, 0, 0, 0, 0>>
ZeroJoints == <<0, 0, 0, 0, 0, 0>>
NoCall == [op |-> "none", target |-> <<>>, v |-> Num(0), a |-> Num(0)]
Quat(q) == [isNone |-> FALSE, q |-> q]
NoQuat == [isNone |-> TRUE, q |-> <<>>]

\* Outcome of one telemetry read of the vendor driver: a pose/joint vector,
\* an empty or wrong-length answer, or an exception.
ReadOutcomes == {"ok", "bad", "raise"}
\* The reads of one handler step that answer are all good or all bad.
SameQuality(rs) == ~({"ok", "bad"} \subseteq rs)

\* ------------------------------------------------ packets (motion side)
StatusPkt(state, msg, pose, jts) ==
  Msg(<<"status", state, msg, <<pose[1], pose[2], pose[3]>>,
        axis_angle_to_quat(pose[4], pose[5], pose[6]), jts, now>>)
PlaceholderStatus(msg) ==
  Msg(<<"status", "error", msg, <<0, 0, 0>>, <<0, 0, 0, 1>>, ZeroJoints, now>>)
\* Variant: a debug packet without its timestamp.
DebugPkt_NoTimestamp(text, data) == Msg(<<"debug", [text |-> text, data |-> data]>>)

\* BaseBackend._debug and the loop's own debug packets: ["debug", msg, ts]
DebugPkt(text, data) == Msg(<<"debug", [text |-> text, data |-> data], now>>)

\* --------------------------------------------------------- RTDEBackend
is_connected == rtde_c /\ rtde_r

get_tcp_pose(rd, pose) == IF ~rtde_r \/ rd = "bad" THEN ZeroPose ELSE pose
get_joints(rd, jts) == IF ~rtde_r \/ rd = "bad" THEN ZeroJoints ELSE jts
ReadRaises(rd) == rtde_r /\ rd = "raise"

\* BaseBackend._status: the packet it sends (when no read raises).
BaseBackend_status(state, msg, rd, pose, jts) ==
  StatusPkt(state, msg, get_tcp_pose(rd, pose), get_joints(rd, jts))

\* Results of a backend operation up to its driver call: the packets sent,
\* the driver call it makes (op = "none": none), whether it raised to its caller.
\* exc: an exception was raised on the way (caught or not).
Raised(emit) == [emit |-> emit, call |-> NoCall, raised |-> TRUE, exc |-> TRUE]
Returned(emit) == [emit |-> emit, call |-> NoCall, raised |-> FALSE, exc |-> FALSE]
Caught(emit) == [emit |-> emit, call |-> NoCall, raised |-> FALSE, exc |-> TRUE]
Calling(emit, call) == [emit |-> emit, call |-> call, raised |-> FALSE, exc |-> FALSE]

\* except Exception as e: _status("error", ...); _debug(traceback); finally.
BackendExceptAt(name, emit, rd, pose, jts) ==
  IF ReadRaises(rd) THEN Raised(emit)
  ELSE Caught(emit \o <<BaseBackend_status("error", <<name, "failed">>, rd, pose, jts),
                          DebugPkt(<<"traceback">>, <<>>)>>)
BackendExcept(name, emit, rd) == BackendExceptAt(name, emit, rd, robot, joints)

RTDEBackend_moveL(name, emit, target, speed, accel, rd) ==
  IF ~rtde_c THEN BackendExcept(name, emit, rd)
  ELSE Calling(emit, [op |-> "moveL", target |-> target,
                      v |-> clamp(speed, LIN_SPEED_LO, LIN_SPEED_HI),
                      a |-> clamp(accel, LIN_ACCEL_LO, LIN_ACCEL_HI)])

RTDEBackend_moveJ(name, emit, q, speed, accel, rd) ==
  IF ~rtde_c THEN BackendExcept(name, emit, rd)
  ELSE Calling(emit, [op |-> "moveJ", target |-> q,
                      v |-> clamp(speed, JOINT_SPEED_LO, JOINT_SPEED_HI),
                      a |-> clamp(accel, JOINT_ACCEL_LO, JOINT_ACCEL_HI)])

\* Variant: the delta is added as it is, whatever the frame.
BaseBackend_move_linear_NoRotation(dxyz, speed0, frame, r1, r2, r3) ==
  LET speed == clamp(speed0, LIN_SPEED_LO, LIN_SPEED_HI)
      st == BaseBackend_status("moving", <<"move_linear", "frame", frame>>, r1, robot, joints)
      p == get_tcp_pose(r2, robot)
      target == <<p[1] + dxyz[1], p[2] + dxyz[2], p[3] + dxyz[3], p[4], p[5], p[6]>>
      accel == Num(UR_ACCEL)
      dbg == DebugPkt(<<"[rtde] moveL">>, <<target, speed, accel>>)
  IN IF Len(dxyz) # 3 THEN Raised(<<>>)
     ELSE IF ReadRaises(r1) THEN Raised(<<>>)
     ELSE IF ReadRaises(r2) THEN BackendExcept("move_linear", <<st>>, r3)
     ELSE RTDEBackend_moveL("move_linear", <<st, dbg>>, target, speed, accel, r3)

\* BaseBackend.move_linear up to its driver call.
BaseBackend_move_linear(dxyz, speed0, frame, r1, r2, r3) ==
  LET speed == clamp(speed0, LIN_SPEED_LO, LIN_SPEED_HI)
      st == BaseBackend_status("moving", <<"move_linear", "frame", frame>>, r1, robot, joints)
      p == get_tcp_pose(r2, robot)
      d == IF frame = "tool"
           THEN mat_vec3(axis_angle_to_R(p[4], p[5], p[6]), dxyz)
           ELSE dxyz
      target == <<p[1] + d[1], p[2] + d[2], p[3] + d[3], p[4], p[5], p[6]>>
      accel == Num(UR_ACCEL)
      dbg == DebugPkt(<<"[rtde] moveL">>, <<target, speed, accel>>)
  IN IF Len(dxyz) # 3 THEN Raised(<<>>)
     ELSE IF ReadRaises(r1) THEN Raised(<<>>)
     ELSE IF ReadRaises(r2) THEN BackendExcept("move_linear", <<st>>, r3)
     ELSE RTDEBackend_moveL("move_linear", <<st, dbg>>, target, speed, accel, r3)

\* Variant: the orientation of the packet is checked but not used.
BaseBackend_move_cartesian_KeepsOrientation(pos, orient, speed0, frame, r1, r2, r3) ==
  LET speed == clamp(speed0, LIN_SPEED_LO, LIN_SPEED_HI)
      st == BaseBackend_status("moving", <<"move_cartesian", "frame", frame>>, r1, robot, joints)
      p == get_tcp_pose(r2, robot)
      pose == <<pos[1], pos[2], pos[3], p[4], p[5], p[6]>>
      accel == Num(UR_ACCEL)
      dbg == DebugPkt(<<"[rtde] moveL">>, <<pose, speed, accel>>)
  IN IF ReadRaises(r1) THEN Raised(<<>>)
     ELSE IF ReadRaises(r2) \/ Len(pos) < 3 \/ (~orient.isNone /\ Len(orient.q) # 4)
          THEN BackendExcept("move_cartesian", <<st>>, r3)
     ELSE RTDEBackend_moveL("move_cartesian", <<st, dbg>>, pose, speed, accel, r3)

\* BaseBackend.move_cartesian up to its driver call.
BaseBackend_move_cartesian(pos, orient, speed0, frame, r1, r2, r3) ==
  LET speed == clamp(speed0, LIN_SPEED_LO, LIN_SPEED_HI)
      st == BaseBackend_status("moving", <<"move_cartesian", "frame", frame>>, r1, robot, joints)
      p == get_tcp_pose(r2, robot)
      aa == IF orient.isNone THEN <<p[4], p[5], p[6]>> ELSE quat_to_axis_angle(orient.q)
      pose == <<pos[1], pos[2], pos[3], aa[1], aa[2], aa[3]>>
      accel == Num(UR_ACCEL)
      dbg == DebugPkt(<<"[rtde] moveL">>, <<pose, speed, accel>>)
  IN IF ReadRaises(r1) THEN Raised(<<>>)
     ELSE IF ReadRaises(r2) \/ Len(pos) < 3 \/ (~orient.isNone /\ Len(orient.q) # 4)
          THEN BackendExcept("move_cartesian", <<st>>, r3)
     ELSE RTDEBackend_moveL("move_cartesian", <<st, dbg>>, pose, speed, accel, r3)

\* Variant: move_joints does not check the length of q.
BaseBackend_move_joints_AnyLength(q, speed0, r1, r3) ==
  LET js == clamp(speed0, JOINT_SPEED_LO, JOINT_SPEED_HI)
      st == BaseBackend_status("moving", <<"move_joints">>, r1, robot, joints)
      accel == Num(UR_JOINT_ACCEL)
      dbg == DebugPkt(<<"[rtde] moveJ">>, <<q, js, accel>>)
  IN IF ReadRaises(r1) THEN Raised(<<>>)
     ELSE RTDEBackend_moveJ("move_joints", <<st, dbg>>, q, js, accel, r3)

BaseBackend_move_joints(q, speed0, r1, r3) ==
  LET js == clamp(speed0, JOINT_SPEED_LO, JOINT_SPEED_HI)
      st == BaseBackend_status("moving", <<"move_joints">>, r1, robot, joints)
      accel == Num(UR_JOINT_ACCEL)
      dbg == DebugPkt(<<"[rtde] moveJ">>, <<q, js, accel>>)
  IN IF Len(q) # 6 THEN Raised(<<>>)
     ELSE IF ReadRaises(r1) THEN Raised(<<>>)
     ELSE RTDEBackend_moveJ("move_joints", <<st, dbg>>, q, js, accel, r3)


proxyVars == <<api_connected, api_backend, last_status, completed, task_success, ingested,
              last_command, waitPc, deadline>>
apiVars == <<busy, readyAt, cache, apiCall, motion, proxyVars>>
pipeVars == <<toEnv, toCtl, parentOpen, sends, observed, emitLog, delivered>>
vars == <<now, pipeVars, envVars, apiVars>>

\* An optional orientation argument: None, a list, or another object.
ArgNone == [isNone |-> TRUE, isList |-> FALSE, items |-> <<>>]
ArgList(q) == [isNone |-> FALSE, isList |-> TRUE, items |-> q]
ArgObj == [isNone |-> FALSE, isList |-> FALSE, items |-> <<>>]
\* A call on the proxy: its arguments (vec: dxyz, pos or q), whether it raised,
\* the packets it sent and the value it returned.
Call(op, vec, orient, speed, frame, raised, sent, ret) ==
  [op |-> op, vec |-> vec, orient |-> orient, speed |-> speed, frame |-> frame,
   raised |-> raised, sent |-> sent, ret |-> ret]
NoApiCall == Call("none", PyObj, ArgNone, PyNone, "", FALSE, <<>>, FALSE)
NoMotion == [op |-> "none", at |-> 0, dur |-> 0]

Started ==
  /\ now = 0
  /\ toEnv = <<>>
  /\ toCtl = <<>>
  /\ emitLog = <<>>
  /\ delivered = 0
  /\ parentOpen = TRUE
  /\ sends = 0
  /\ envPc = "start"
  /\ rtde_c = FALSE
  /\ rtde_r = FALSE
  /\ linkC = "closed"
  /\ linkR = "closed"
  /\ moving = FALSE
  /\ lastCmdText = ""
  /\ robot = ZeroPose
  /\ joints = ZeroJoints
  /\ drv = NoCall
  /\ inFlight = 0
  /\ cur = NonList
  /\ prevUnknown = FALSE
  /\ emitted = <<>>
  /\ drvCalls = 0
  /\ excepted = FALSE
  /\ everRan = FALSE
  /\ shutdowns = 0
  /\ shutCalls = <<>>
  /\ drvResult = "none"
  /\ busy = FALSE
  /\ readyAt = 0
  /\ cache = <<0, 0, 0>>
  /\ apiCall = NoApiCall
  /\ motion = NoMotion
  /\ api_connected = FALSE
  /\ api_backend = ""
  /\ last_status = NonList
  /\ completed = FALSE
  /\ task_success = "None"
  /\ ingested = NonList
  /\ last_command = ""
  /\ waitPc = "none"
  /\ deadline = 0

\* The module's three partial specifications keep, of the replies, only those
\* to the packet being handled.
Init == Started /\ observed = FALSE

\* ------------------------------------------------------ run_environment
\* send(): child_conn.send with every exception swallowed.
send(chan, pkts) == IF parentOpen THEN chan \o pkts ELSE chan

\* The number of packets the loop has received.
Received == sends - Len(toEnv)

\* Variant: a packet is written ahead of the unread ones.
Emits_Ahead(unread, taken, pkts) ==
  /\ toCtl' = (IF parentOpen THEN pkts \o (IF observed THEN toCtl ELSE unread) ELSE toCtl)
  /\ emitLog' = (IF observed /\ parentOpen
                 THEN emitLog \o [i \in 1..Len(pkts) |-> Received + taken]
                 ELSE emitLog)

\* The motion process sends pkts, one send() each, in a step in which it takes
\* `taken` packets off its pipe; unread is what the control side has left on
\* the pipe when it is not followed packet by packet.
Emits(unread, taken, pkts) ==
  /\ toCtl' = send(IF observed THEN toCtl ELSE unread, pkts)
  /\ emitLog' = (IF observed /\ parentOpen
                 THEN emitLog \o [i \in 1..Len(pkts) |-> Received + taken]
                 ELSE emitLog)

\* connect() outcomes: which step of it fails, if any.
ConnectOutcomes == {"import_fails", "control_fails", "receive_fails", "up"}
\* Variant: a failed connect keeps the handles it had already assigned.
RTDEBackend_connect_KeepsHandles(outcome, rd) ==
  CASE outcome = "import_fails" ->
         [c |-> FALSE, r |-> FALSE, lc |-> "closed", lr |-> "closed", emit |-> <<>>, raised |-> TRUE]
    [] outcome = "control_fails" ->
         [c |-> FALSE, r |-> FALSE, lc |-> "closed", lr |-> "closed", emit |-> <<>>, raised |-> TRUE]
    [] outcome = "receive_fails" ->
         [c |-> TRUE, r |-> FALSE, lc |-> "open", lr |-> "closed", emit |-> <<>>, raised |-> TRUE]
    [] OTHER ->
         [c |-> TRUE, r |-> TRUE, lc |-> "open", lr |-> "open", raised |-> rd = "raise",
          emit |-> IF rd = "raise" THEN <<>>
                   ELSE <<StatusPkt("idle", <<"RTDE connected">>,
                                    IF rd = "bad" THEN ZeroPose ELSE robot,
                                    IF rd = "bad" THEN ZeroJoints ELSE joints)>>]

\* RTDEBackend.connect: a failure after the import clears both handles.
RTDEBackend_connect(outcome, rd) ==
  CASE outcome = "import_fails" ->
         [c |-> FALSE, r |-> FALSE, lc |-> "closed", lr |-> "closed", emit |-> <<>>, raised |-> TRUE]
    [] outcome = "control_fails" ->
         [c |-> FALSE, r |-> FALSE, lc |-> "closed", lr |-> "closed", emit |-> <<>>, raised |-> TRUE]
    [] outcome = "receive_fails" ->
         [c |-> FALSE, r |-> FALSE, lc |-> "open", lr |-> "closed", emit |-> <<>>, raised |-> TRUE]
    [] OTHER ->
         IF rd = "raise"
         THEN [c |-> FALSE, r |-> FALSE, lc |-> "open", lr |-> "open", emit |-> <<>>, raised |-> TRUE]
         ELSE [c |-> TRUE, r |-> TRUE, lc |-> "open", lr |-> "open", raised |-> FALSE,
               emit |-> <<StatusPkt("idle", <<"RTDE connected">>,
                                    IF rd = "bad" THEN ZeroPose ELSE robot,
                                    IF rd = "bad" THEN ZeroJoints ELSE joints)>>]

\* What run_environment does once connect() has returned or raised.
StartFailed == [pc |-> "done",
                emit |-> <<PlaceholderStatus(<<"RTDE connect failed">>),
                           DebugPkt(<<"[env] RTDE required; terminating env process">>, <<>>)>>]
StartRunning == [pc |-> "recv",
                 emit |-> <<DebugPkt(<<"[env] using backend:", "rtde">>, <<>>)>>]
\* Variant: the connect result is ignored and the loop is entered anyway.
AfterConnect_KeepGoing(raised, connected) == StartRunning

AfterConnect(raised, connected) ==
  IF raised \/ ~connected THEN StartFailed ELSE StartRunning

EnvStart(outcome, rd) ==
  /\ envPc = "start"
  /\ LET C == RTDEBackend_connect(outcome, rd)
         A == AfterConnect(C.raised, C.c /\ C.r)
     IN /\ rtde_c' = C.c
        /\ rtde_r' = C.r
        /\ linkC' = C.lc
        /\ linkR' = C.lr
        /\ envPc' = A.pc
        /\ everRan' = (A.pc = "recv")
        /\ emitted' = C.emit \o A.emit
        /\ Emits(toCtl, 0, C.emit \o A.emit)
  /\ UNCHANGED <<sends, now, toEnv, parentOpen, observed, delivered, moving, lastCmdText, robot, joints, drv,
                 inFlight, cur, prevUnknown, drvCalls, excepted, shutdowns, shutCalls, drvResult, apiVars>>

KnownTags == {"log", "ping", "set_last_command", "move_linear", "move_cartesian", "move_joints"}

\* Variant: the outer handler reports a fixed text that leaves out the tag.
OuterFail_Generic(tag) ==
  <<PlaceholderStatus(<<"dispatch failed">>), DebugPkt(<<"traceback">>, <<>>)>>

\* except Exception as e: at the end of the dispatch.
OuterFail(tag) == <<PlaceholderStatus(<<tag, "failed">>), DebugPkt(<<"traceback">>, <<>>)>>

\* Variant: asynchronous=True, the loop goes back to recv while the arm moves.
DriverCallPc_Async == "recv"

\* Where the loop is while a driver motion call is in progress
\* (asynchronous=False: the call returns when the motion has ended).
DriverCallPc == "driver"

\* The loop has a list packet with tag `tag` at the head of the pipe.
Receives(tag) ==
  /\ envPc = "recv"
  /\ toEnv # <<>>
  /\ Head(toEnv).list
  /\ Head(toEnv).f # <<>>
  /\ Head(toEnv).f[1] = tag

\* The state after a dispatch that sent `emit`, given the backend's result.
\* Variant: the flag is cleared at the end of the try body, not in a finally.
moving_after_NoFinally(failed) == failed

\* finally: self._moving = False, whether the operation failed or not.
moving_after(failed) == FALSE

Dispatched(res, text) ==
  LET tag == Head(toEnv).f[1]
      emit == res.emit \o (IF res.raised THEN OuterFail(tag) ELSE <<>>)
      calls == res.call.op # "none"
  IN /\ toEnv' = Tail(toEnv)
     /\ cur' = Head(toEnv)
     /\ prevUnknown' = (cur.list /\ cur.f # <<>> /\ cur.f[1] \notin KnownTags)
     /\ emitted' = emit
     /\ Emits(<<>>, 1, emit)
     /\ drv' = res.call
     /\ envPc' = (IF calls THEN DriverCallPc ELSE "recv")
     /\ moving' = (IF calls THEN TRUE ELSE moving_after(res.raised \/ res.exc))
     /\ inFlight' = (IF calls THEN inFlight + 1 ELSE inFlight)
     /\ drvCalls' = (IF calls THEN 1 ELSE 0)
     /\ excepted' = res.exc
     /\ drvResult' = "none"
     /\ lastCmdText' = text
     /\ UNCHANGED <<sends, now, parentOpen, observed, delivered, rtde_c, rtde_r, linkC, linkR, robot, joints,
                    everRan, shutdowns, shutCalls, apiVars>>


\* pkt[i-1] if len(pkt) > i-1 else dflt
\* Variant: a missing frame is taken to be "base".
DefaultFrame_Base == "base"

\* frame = pkt[..] if len(pkt) > .. else "tool"
DefaultFrame == "tool"

FieldOr(f, i, dflt) == IF Len(f) >= i THEN f[i] ELSE dflt

\* A text as the words around the marker "using backend:" that
\* ingest_env_message looks for.
Words(s) == IF s = "using backend: sim" THEN <<"using backend:", "sim">> ELSE <<s>>

EnvLog ==
  /\ Receives("log")
  /\ LET msg == FieldOr(Head(toEnv).f, 2, "")
     IN Dispatched(Returned(<<DebugPkt(<<"[log]">> \o Words(msg), <<>>)>>), lastCmdText)

\* Variant: the pong reports the backend as not connected.
Pong_NotConnected == Msg(<<"pong", "rtde", FALSE, now>>)

\* ["pong", backend.name, backend.is_connected(), ts]
Pong == Msg(<<"pong", "rtde", is_connected, now>>)

EnvPing ==
  /\ Receives("ping")
  /\ Dispatched(Returned(<<Pong>>), lastCmdText)

EnvSetLastCommand ==
  /\ Receives("set_last_command")
  /\ LET text == FieldOr(Head(toEnv).f, 2, "")
     IN Dispatched(Returned(<<DebugPkt(<<"[env] last_command=">> \o Words(text), <<>>)>>), text)

EnvMoveLinear(r1, r2, r3) ==
  /\ Receives("move_linear")
  /\ LET f == Head(toEnv).f
         dxyz == FieldOr(f, 2, <<0, 0, 0>>)
         speed == FieldOr(f, 3, Num(UR_SPEED))
         frame == FieldOr(f, 4, DefaultFrame)
     IN IF FloatRaises(speed) THEN Dispatched(Raised(<<>>), lastCmdText)
        ELSE Dispatched(BaseBackend_move_linear(dxyz, speed, frame, r1, r2, r3), lastCmdText)

EnvMoveCartesian(r1, r2, r3) ==
  /\ Receives("move_cartesian")
  /\ LET f == Head(toEnv).f
         pos == FieldOr(f, 2, <<0, 0, 0>>)
         orient == FieldOr(f, 3, NoQuat)
         speed == FieldOr(f, 4, Num(UR_SPEED))
         frame == FieldOr(f, 5, DefaultFrame)
     IN IF FloatRaises(speed) THEN Dispatched(Raised(<<>>), lastCmdText)
        ELSE Dispatched(BaseBackend_move_cartesian(pos, orient, speed, frame, r1, r2, r3),
                        lastCmdText)

EnvMoveJoints(r1, r3) ==
  /\ Receives("move_joints")
  /\ LET f == Head(toEnv).f
         q == FieldOr(f, 2, ZeroJoints)
         speed == FieldOr(f, 3, Num(UR_JOINT_SPEED))
     IN IF FloatRaises(speed) THEN Dispatched(Raised(<<>>), lastCmdText)
        ELSE Dispatched(BaseBackend_move_joints(q, speed, r1, r3), lastCmdText)

\* Variant: an unknown tag is only logged, no status is sent.
UnknownOp_Silent(tag) == <<DebugPkt(<<"unknown op", tag>>, <<>>)>>

\* else: send(["status", "error", f"unknown op '{tag}'", ...])
UnknownOp(tag) == <<PlaceholderStatus(<<"unknown op", tag>>)>>

EnvUnknown ==
  /\ envPc = "recv"
  /\ toEnv # <<>>
  /\ Head(toEnv).list
  /\ Head(toEnv).f # <<>>
  /\ Head(toEnv).f[1] \notin KnownTags
  /\ Dispatched(Returned(UnknownOp(Head(toEnv).f[1])), lastCmdText)

\* if not isinstance(pkt, (list, tuple)) or not pkt: ... continue
\* Variant: an invalid packet is answered with a status "error".
InvalidNotice_Status == <<PlaceholderStatus(<<"invalid pkt">>)>>

\* send(["debug", f"[env] ignore invalid pkt: {pkt}", ts])
InvalidNotice == <<DebugPkt(<<"[env] ignore invalid pkt">>, <<>>)>>

EnvInvalid ==
  /\ envPc = "recv"
  /\ toEnv # <<>>
  /\ ~Head(toEnv).list \/ Head(toEnv).f = <<>>
  /\ toEnv' = Tail(toEnv)
  /\ cur' = Head(toEnv)
  /\ prevUnknown' = (cur.list /\ cur.f # <<>> /\ cur.f[1] \notin KnownTags)
  /\ emitted' = InvalidNotice
  /\ Emits(<<>>, 1, emitted')
  /\ drvCalls' = 0
  /\ excepted' = FALSE
  /\ drvResult' = "none"
  /\ UNCHANGED <<sends, now, parentOpen, observed, delivered, envPc, rtde_c, rtde_r, linkC, linkR, moving,
                 lastCmdText, robot, joints, drv, inFlight, everRan, shutdowns, shutCalls, apiVars>>

\* The vendor driver's moveL/moveJ returns True, returns False or raises; the
\* arm is at the target when it returns True.
DriverOutcomes == {"ok", "false", "raise"}
InWorkspace(t) == \A i \in 1..3 : Abs(t[i]) <= MaxReach

EnvDriverReturn(outcome, r4, r5) ==
  /\ envPc = "driver"
  /\ (outcome = "ok" /\ drv.op = "moveL") => InWorkspace(drv.target)
  /\ LET name == cur.f[1]
         pose == IF outcome = "ok" /\ drv.op = "moveL" THEN drv.target ELSE robot
         jts == IF outcome = "ok" /\ drv.op = "moveJ" THEN drv.target ELSE joints
         res == IF outcome = "ok" /\ ~ReadRaises(r4)
                THEN Returned(<<BaseBackend_status("idle", <<"done">>, r4, pose, jts)>>)
                ELSE BackendExceptAt(name, <<>>, r5, pose, jts)
         emit == res.emit \o (IF res.raised THEN OuterFail(name) ELSE <<>>)
     IN /\ robot' = pose
        /\ joints' = jts
        /\ emitted' = emitted \o emit
        /\ Emits(toCtl, 0, emit)
        /\ excepted' = res.exc
  /\ envPc' = "recv"
  /\ moving' = moving_after(outcome # "ok" \/ ReadRaises(r4))
  /\ drv' = NoCall
  /\ inFlight' = inFlight - 1
  /\ drvResult' = outcome
  /\ UNCHANGED <<sends, now, toEnv, parentOpen, observed, delivered, rtde_c, rtde_r, linkC, linkR, lastCmdText,
                 cur, prevUnknown, drvCalls, everRan, shutdowns, shutCalls, apiVars>>

\* RTDEBackend.shutdown.  fault: the driver call of it that raises, if any.
\* A link whose disconnect() was called is "closed", or "failed" when that
\* call raised, or "again" when it had been called on the link before; a link
\* whose disconnect() was not called stays as it was.
ShutdownFaults == {"none", "stopScript", "disconnect_c", "disconnect_r"}
Disconnect(link, raises) ==
  IF link # "open" THEN "again" ELSE IF raises THEN "failed" ELSE "closed"
\* Variant: the handles are kept when shutdown() ends.
RTDEBackend_shutdown_KeepsHandles(fault) ==
  LET reachedC == rtde_c /\ fault # "stopScript"
      reachedR == rtde_r /\ (~rtde_c \/ fault \notin {"stopScript", "disconnect_c"})
  IN [c |-> rtde_c,
      r |-> rtde_r,
      lc |-> IF reachedC THEN Disconnect(linkC, fault = "disconnect_c") ELSE linkC,
      lr |-> IF reachedR THEN Disconnect(linkR, fault = "disconnect_r") ELSE linkR,
      calls |-> (IF rtde_c THEN <<"stopScript">> ELSE <<>>)
                \o (IF reachedC THEN <<"disconnect_c">> ELSE <<>>)
                \o (IF reachedR THEN <<"disconnect_r">> ELSE <<>>),
      raised |-> FALSE,
      emit |-> <<DebugPkt(<<"[rtde] shutdown complete">>, <<>>)>>]

\* try: stopScript, disconnect, disconnect; except Exception: pass;
\* finally: both handles cleared, one debug packet.
RTDEBackend_shutdown(fault) ==
  LET reachedC == rtde_c /\ fault # "stopScript"
      reachedR == rtde_r /\ (~rtde_c \/ fault \notin {"stopScript", "disconnect_c"})
  IN [c |-> FALSE,
      r |-> FALSE,
      lc |-> IF reachedC THEN Disconnect(linkC, fault = "disconnect_c") ELSE linkC,
      lr |-> IF reachedR THEN Disconnect(linkR, fault = "disconnect_r") ELSE linkR,
      calls |-> (IF rtde_c THEN <<"stopScript">> ELSE <<>>)
                \o (IF reachedC THEN <<"disconnect_c">> ELSE <<>>)
                \o (IF reachedR THEN <<"disconnect_r">> ELSE <<>>),
      raised |-> FALSE,
      emit |-> <<DebugPkt(<<"[rtde] shutdown complete">>, <<>>)>>]

\* Variant: the final debug packet is sent before the backend is shut down.
FinallyEmits_TerminatedFirst(first, shut) ==
  first \o <<DebugPkt(<<"[env] terminated">>, <<>>)>> \o shut

\* What the loop's exit sends: the packets of the failed receive, those of
\* backend.shutdown(), then the final debug packet.
FinallyEmits(first, shut) ==
  first \o shut \o <<DebugPkt(<<"[env] terminated">>, <<>>)>>

\* finally: backend.shutdown(); send(["debug", "[env] terminated", ts])
Terminate(first, fault) ==
  LET S == RTDEBackend_shutdown(fault)
      emit == FinallyEmits(first, S.emit)
  IN /\ envPc' = "done"
     /\ rtde_c' = S.c
     /\ rtde_r' = S.r
     /\ linkC' = S.lc
     /\ linkR' = S.lr
     /\ shutCalls' = S.calls
     /\ emitted' = emit
     /\ Emits(<<>>, 0, emit)
     /\ cur' = NonList
     /\ drvCalls' = 0
     /\ excepted' = FALSE
     /\ drvResult' = "none"
     /\ shutdowns' = shutdowns + 1
     /\ UNCHANGED <<sends, now, toEnv, parentOpen, observed, delivered, moving, lastCmdText, robot, joints, drv,
                    inFlight, prevUnknown, everRan, apiVars>>

\* recv raises EOFError: the control side closed the pipe and nothing is left.
EnvRecvEOF(fault) ==
  /\ envPc = "recv"
  /\ ~parentOpen
  /\ toEnv = <<>>
  /\ Terminate(<<>>, fault)

\* recv raises another exception.
EnvRecvError(fault) ==
  /\ envPc = "recv"
  /\ Terminate(<<PlaceholderStatus(<<"pipe recv failed">>)>>, fault)


\* ------------------------------------------------- the pipe's other end
\* Packets an arbitrary sender may write on the pipe (fields in wire order).
RawSimple == {Msg(<<"log", "hello", 0>>), Msg(<<"ping", 0>>),
              Msg(<<"set_last_command", "polish", 0>>), Msg(<<"abort", 0>>),
              Msg(<<>>), NonList}
RawLinear ==
  {Msg(<<"move_linear", <<0, 0, 150>>, s, "base", 0>>) : s \in {Num(1), PyNaN}}
  \cup {Msg(<<"move_linear", <<0, 0, 300>>, Num(100000), "tool", 0>>),
        Msg(<<"move_linear", <<100, 0>>, Num(100), "base", 0>>), Msg(<<"move_linear">>)}
RawCartesian ==
  {Msg(<<"move_cartesian", <<100, 0, 0>>, o, Num(100000), "base", 0>>) :
     o \in {NoQuat, Quat(<<0, 0, 0, 2>>), Quat(<<1, 0, 0, 0>>), Quat(<<0, 0, 1>>)}}
  \cup {Msg(<<"move_cartesian", <<0, 0, 300>>, NoQuat, PyStr, "base", 0>>)}
RawJointMoves ==
  {Msg(<<"move_joints", <<100, 0, 0, 0, 0, 0>>, s, 0>>) : s \in {Num(1), Num(100000), PyNaN}}
  \cup {Msg(<<"move_joints", <<1, 2, 3>>, Num(300), 0>>)}

PipeSend(pkt) ==
  /\ parentOpen
  /\ Len(toEnv) < MaxQueue
  /\ sends < MaxSends
  /\ toEnv' = Append(toEnv, pkt)
  /\ sends' = sends + 1

\* Any process holding the control end writes a packet.
RawSend(pkt) ==
  /\ PipeSend(pkt)
  /\ UNCHANGED <<now, toCtl, parentOpen, observed, emitLog, delivered, envVars, apiVars>>

\* The control side exits or dies: its end of the pipe is closed.
ParentClose ==
  /\ parentOpen
  /\ parentOpen' = FALSE
  /\ UNCHANGED <<sends, now, toEnv, toCtl, observed, emitLog, delivered, envVars, apiVars>>

EnvStep ==
  \/ \E o \in ConnectOutcomes, rd \in ReadOutcomes : EnvStart(o, rd)
  \/ EnvLog
  \/ EnvPing
  \/ EnvSetLastCommand
  \/ \E r1, r2, r3 \in ReadOutcomes : SameQuality({r1, r2, r3}) /\ EnvMoveLinear(r1, r2, r3)
  \/ \E r1, r2, r3 \in ReadOutcomes : SameQuality({r1, r2, r3}) /\ EnvMoveCartesian(r1, r2, r3)
  \/ \E r1, r3 \in ReadOutcomes : SameQuality({r1, r3}) /\ EnvMoveJoints(r1, r3)
  \/ EnvUnknown
  \/ EnvInvalid
  \/ \E o \in DriverOutcomes, r4, r5 \in ReadOutcomes :
       SameQuality({r4, r5}) /\ EnvDriverReturn(o, r4, r5)
  \/ \E fault \in ShutdownFaults : EnvRecvEOF(fault)
  \/ \E fault \in ShutdownFaults : EnvRecvError(fault)

RawStep ==
  \/ \E pkt \in RawSimple : RawSend(pkt)
  \/ \E pkt \in RawLinear : RawSend(pkt)
  \/ \E pkt \in RawCartesian : RawSend(pkt)
  \/ \E pkt \in RawJointMoves : RawSend(pkt)

\* The motion process fed by an arbitrary sender.
NextEnv == EnvStep \/ RawStep \/ ParentClose
SpecEnv == Init /\ [][NextEnv]_vars

\* backend.shutdown() called once more on the backend the loop has already
\* shut down.
ShutdownAgain(fault) ==
  /\ envPc = "done"
  /\ shutdowns >= 1
  /\ shutdowns < MaxShutdowns
  /\ LET S == RTDEBackend_shutdown(fault)
     IN /\ rtde_c' = S.c
        /\ rtde_r' = S.r
        /\ linkC' = S.lc
        /\ linkR' = S.lr
        /\ shutCalls' = S.calls
        /\ emitted' = S.emit
        /\ Emits(<<>>, 0, S.emit)
  /\ shutdowns' = shutdowns + 1
  /\ UNCHANGED <<sends, now, toEnv, parentOpen, observed, delivered, envPc, moving, lastCmdText, robot,
                 joints, drv, inFlight, cur, prevUnknown, drvCalls, excepted, everRan,
                 drvResult, apiVars>>

\* The motion process, and its backend shut down again after the loop ended.
NextShutdown == NextEnv \/ \E f \in ShutdownFaults : ShutdownAgain(f)
SpecShutdown == Init /\ [][NextShutdown]_vars

\* The motion loop fed move_cartesian packets whose quaternion lies on one
\* axis and has any length, the zero quaternion included, among packets of
\* the other kinds.
QuatInputs == {<<0, 0, 0, 2>>, <<0, 0, 0, 0>>, <<0, 0, 0, -1>>, <<2, 0, 0, 0>>, <<0, 3, 0, 0>>,
               <<0, 0, -1, 0>>}
QuatPacket(q) == Msg(<<"move_cartesian", <<100, 0, 0>>, Quat(q), Num(100), "base", 0>>)
QuatStep ==
  \/ \E q \in QuatInputs : RawSend(QuatPacket(q))
  \/ \E pkt \in RawSimple : RawSend(pkt)
  \/ RawSend(Msg(<<"move_linear", <<0, 0, 150>>, Num(100), "tool", 0>>))
  \/ RawSend(Msg(<<"move_joints", <<100, 0, 0, 0, 0, 0>>, Num(300), 0>>))
NextQuat == EnvStep \/ QuatStep \/ ParentClose
SpecQuat == Init /\ [][NextQuat]_vars

\* The motion loop fed packets that lack trailing fields: every proper prefix
\* of one packet of each kind.
Prefixes(f) == {Msg(SubSeq(f, 1, n)) : n \in 1..(Len(f) - 1)}
ShortStep ==
  \/ \E p \in Prefixes(<<"log", "hello", 0>>) : RawSend(p)
  \/ \E p \in Prefixes(<<"ping", 0>>) : RawSend(p)
  \/ \E p \in Prefixes(<<"set_last_command", "polish", 0>>) : RawSend(p)
  \/ \E p \in Prefixes(<<"move_linear", <<0, 0, 150>>, Num(100), "base", 0>>) : RawSend(p)
  \/ \E p \in Prefixes(<<"move_cartesian", <<100, 0, 0>>, Quat(<<1, 0, 0, 0>>), Num(100),
                          "base", 0>>) : RawSend(p)
  \/ \E p \in Prefixes(<<"move_joints", <<100, 0, 0, 0, 0, 0>>, Num(300), 0>>) : RawSend(p)
  \/ RawSend(Msg(<<"abort">>))
  \/ RawSend(Msg(<<>>))
NextDecode == EnvStep \/ ShortStep \/ ParentClose
SpecDecode == Init /\ [][NextDecode]_vars


\* ----------------------------------------------------------------- API
ValidFrames == {"tool", "base"}

\* spd = SAFE_DEFAULT_SPEED if speed is None else float(speed)
\* spd = max(SAFE_MIN_SPEED, min(spd, SAFE_MAX_SPEED))
ApiSpeed(speed) ==
  LET spd == IF speed.k = "none" THEN Num(SAFE_DEFAULT_SPEED) ELSE speed
  IN PyMax(Num(SAFE_MIN_SPEED), PyMin(spd, Num(SAFE_MAX_SPEED)))

\* Variant: the step is only limited from above.
ApiStep_NoMin(norm) == PyMin(Num(norm), Num(SAFE_MAX_STEP_M)).v

\* step = max(SAFE_MIN_STEP_M, min(step_vec_norm, SAFE_MAX_STEP_M))
ApiStep(norm) == PyMax(Num(SAFE_MIN_STEP_M), PyMin(Num(norm), Num(SAFE_MAX_STEP_M))).v

\* Variant: the delta is passed on as requested.
ApiScaledDelta_Unscaled(d) == d

\* if step_vec_norm > 0: scale = step / step_vec_norm; dx, dy, dz = dx*scale, ...
ApiScaledDelta(d) ==
  LET norm == Sqrt(SumSq(d))
      step == ApiStep(norm)
  IN IF norm > 0
     THEN <<(d[1] * step) \div norm, (d[2] * step) \div norm, (d[3] * step) \div norm>>
     ELSE d

\* duration = step / spd if spd > 0 else 0.0   (ms)
ApiDuration(step, spd) == IF PyLt(Num(0), spd) THEN (step * 1000) \div spd.v ELSE 0

\* API._mark_busy_for: the new (busy, ready_at).
mark_busy_for(seconds0) ==
  LET seconds == PyMax(Num(0), Num(seconds0)).v
      guard == PyMin(Num(GUARD_MAX), Num(GUARD_BASE + seconds \div 10)).v
  IN [busy |-> TRUE, readyAt |-> now + seconds + guard]

\* A call on the proxy that raised before doing anything.
ApiRaised(op, vec, orient, speed, frame) ==
  /\ apiCall' = Call(op, vec, orient, speed, frame, TRUE, <<>>, FALSE)
  /\ UNCHANGED <<now, pipeVars, envVars, busy, readyAt, cache, motion, proxyVars>>

\* Variant: move_linear does not check the frame.
MoveLinearRejects_NoFrame(dxyz, speed, frame) ==
  \/ ~dxyz.isList
  \/ Len(dxyz.items) # 3
  \/ (speed.k # "none" /\ FloatRaises(speed))

\* The checks of move_linear that raise, in the order the code makes them.
MoveLinearRejects(dxyz, speed, frame) ==
  \/ ~dxyz.isList
  \/ Len(dxyz.items) # 3
  \/ (speed.k # "none" /\ FloatRaises(speed))
  \/ frame \notin ValidFrames

ApiMoveLinear(dxyz, speed, frame) ==
  IF MoveLinearRejects(dxyz, speed, frame) THEN ApiRaised("move_linear", dxyz, ArgNone, speed, frame)
  ELSE LET d == ApiScaledDelta(dxyz.items)
           step == ApiStep(Sqrt(SumSq(dxyz.items)))
           spd == ApiSpeed(speed)
           pkt == Msg(<<"move_linear", d, spd, frame, now>>)
           duration == ApiDuration(step, spd)
           mb == mark_busy_for(duration)
       IN /\ PipeSend(pkt)
          /\ busy' = mb.busy
          /\ readyAt' = mb.readyAt
          /\ cache' = <<cache[1] + d[1], cache[2] + d[2], cache[3] + d[3]>>
          /\ apiCall' = Call("move_linear", dxyz, ArgNone, speed, frame, FALSE, <<pkt>>, FALSE)
          /\ motion' = [op |-> "move_linear", at |-> now, dur |-> duration]
          /\ UNCHANGED <<now, toCtl, parentOpen, observed, emitLog, delivered, envVars, proxyVars>>

MoveCartesianRejects(pos, orientation, speed, frame) ==
  \/ ~pos.isList
  \/ Len(pos.items) # 3
  \/ (~orientation.isNone /\ (~orientation.isList \/ Len(orientation.items) # 4))
  \/ (speed.k # "none" /\ FloatRaises(speed))
  \/ frame \notin ValidFrames

ApiMoveCartesian(pos, orientation, speed, frame) ==
  IF MoveCartesianRejects(pos, orientation, speed, frame) THEN ApiRaised("move_cartesian", pos, orientation, speed, frame)
  ELSE LET p == pos.items
           o == IF orientation.isNone THEN NoQuat ELSE Quat(orientation.items)
           spd == ApiSpeed(speed)
           pkt == Msg(<<"move_cartesian", p, o, spd, frame, now>>)
           step == Sqrt(SumSq(<<p[1] - cache[1], p[2] - cache[2], p[3] - cache[3]>>))
           duration == ApiDuration(step, spd)
           mb == mark_busy_for(duration)
       IN /\ PipeSend(pkt)
          /\ busy' = mb.busy
          /\ readyAt' = mb.readyAt
          /\ cache' = p
          /\ apiCall' = Call("move_cartesian", pos, orientation, speed, frame, FALSE, <<pkt>>, FALSE)
          /\ motion' = [op |-> "move_cartesian", at |-> now, dur |-> duration]
          /\ UNCHANGED <<now, toCtl, parentOpen, observed, emitLog, delivered, envVars, proxyVars>>

MoveJointsRejects(q, speed) ==
  \/ ~q.isList
  \/ Len(q.items) # 6
  \/ FloatRaises(speed)

ApiMoveJoints(q, speed) ==
  IF MoveJointsRejects(q, speed) THEN ApiRaised("move_joints", q, ArgNone, speed, "")
  ELSE LET pkt == Msg(<<"move_joints", q.items, speed, now>>)
       IN /\ PipeSend(pkt)
          /\ apiCall' = Call("move_joints", q, ArgNone, speed, "", FALSE, <<pkt>>, FALSE)
          /\ motion' = [op |-> "move_joints", at |-> now, dur |-> 0]
          /\ UNCHANGED <<now, toCtl, parentOpen, observed, emitLog, delivered, envVars, busy, readyAt, cache, proxyVars>>

\* API.is_busy
\* Variant: is_busy never lets the estimate expire.
is_busy_NoExpiry == busy

\* API.is_busy: the flag after the call, which is the value returned.
is_busy == IF busy /\ now >= readyAt THEN FALSE ELSE busy

ApiIsBusy ==
  LET b == is_busy
  IN /\ busy' = b
     /\ apiCall' = Call("is_busy", PyObj, ArgNone, PyNone, "", FALSE, <<>>, b)
     /\ UNCHANGED <<now, pipeVars, envVars, readyAt, cache, motion, proxyVars>>


\* API.get_pose
get_pose(frame) ==
  [raised |-> frame \notin ValidFrames,
   ret |-> IF frame \in ValidFrames THEN cache ELSE <<>>]

\* The position field of an incoming status message: a list of numbers, a
\* list with an element float() rejects, or another object.
PosList(items) == [isList |-> TRUE, items |-> items, numeric |-> TRUE]
PosNotNumeric == [isList |-> TRUE, items |-> <<0, 0, 0>>, numeric |-> FALSE]
PosObj == [isList |-> FALSE, items |-> <<>>, numeric |-> FALSE]
\* The position field as the motion process builds it.
Incoming(pkt) ==
  IF pkt.f[1] = "status"
  THEN Msg(<<"status", pkt.f[2], pkt.f[3], PosList(pkt.f[4]), pkt.f[5], pkt.f[6], pkt.f[7]>>)
  ELSE pkt

\* The fields ingest_env_message may write.
Ingest(c, conn, be, st) == [cache |-> c, connected |-> conn, backend |-> be, last_status |-> st]
IngestNothing == Ingest(cache, api_connected, api_backend, last_status)

\* Variant: a status message is taken whatever its length.
IngestTakesStatus_AnyLength(msg) == msg.f[1] = "status" /\ Len(msg.f) >= 4

\* if tag == "status" and len(msg) >= 7
IngestTakesStatus(msg) == msg.f[1] = "status" /\ Len(msg.f) >= 7

\* Variant: a status message does not touch the pose cache.
IngestStatus_KeepsCache(msg) ==
  Ingest(cache, msg.f[2] \in {"idle", "moving"}, api_backend, msg)

\* Variant: every state but "error" counts as connected.
IngestStatus_ConnectedUnlessError(msg) ==
  LET pos == msg.f[4]
      usable == pos.isList /\ Len(pos.items) = 3
  IN IF usable /\ ~pos.numeric THEN IngestNothing
     ELSE Ingest(IF usable THEN pos.items ELSE cache, msg.f[2] # "error", api_backend, msg)

\* The status branch; float() raising leaves every field as it was.
IngestStatus(msg) ==
  LET pos == msg.f[4]
      usable == pos.isList /\ Len(pos.items) = 3
  IN IF usable /\ ~pos.numeric THEN IngestNothing
     ELSE Ingest(IF usable THEN pos.items ELSE cache,
                 msg.f[2] \in {"idle", "moving"}, api_backend, msg)

\* Variant: only a message that starts with the loop's own announcement names
\* the backend.
IngestDebug_OwnAnnouncement(msg) ==
  LET text == msg.f[2].text
  IN IF Len(text) >= 2 /\ text[1] = "[env] using backend:"
     THEN Ingest(cache, api_connected, text[2], last_status)
     ELSE IngestNothing

\* The debug branch: if "using backend:" in m, the backend name becomes
\* m.split("using backend:")[-1].strip(), the text after the last marker
\* (one word at most in the messages of this model).
Marked == {"[env] using backend:", "using backend:"}
IngestDebug(msg) ==
  LET text == msg.f[2].text
      hits == {i \in 1..Len(text) : text[i] \in Marked}
      last == CHOOSE i \in hits : \A j \in hits : j <= i
  IN IF hits = {} THEN IngestNothing
     ELSE Ingest(cache, api_connected, IF last < Len(text) THEN text[last + 1] ELSE "",
                 last_status)

\* The pong branch.
IngestPong(msg) == Ingest(cache, msg.f[3], msg.f[2], last_status)

\* elif tag == "debug" and len(msg) >= 3
IngestTakesDebug(msg) == msg.f[1] = "debug" /\ Len(msg.f) >= 3

\* elif tag == "pong" and len(msg) >= 4
IngestTakesPong(msg) == msg.f[1] = "pong" /\ Len(msg.f) >= 4

\* API.ingest_env_message: the fields after it (every exception is swallowed).
ingest_env_message(msg) ==
  IF ~msg.list \/ msg.f = <<>> THEN IngestNothing
  ELSE IF IngestTakesStatus(msg) THEN IngestStatus(msg)
  ELSE IF IngestTakesDebug(msg) THEN IngestDebug(msg)
  ELSE IF IngestTakesPong(msg) THEN IngestPong(msg)
  ELSE IngestNothing

\* Variant: an idle status acknowledges the motion and clears the busy flag.
busy_after_ingest_Acknowledged(msg) ==
  IF msg.list /\ msg.f # <<>> /\ IngestTakesStatus(msg) /\ msg.f[2] = "idle" THEN FALSE ELSE busy

\* No branch of ingest_env_message assigns _busy.
busy_after_ingest(msg) == busy

ApiIngest(msg) ==
  LET r == ingest_env_message(msg)
  IN /\ cache' = r.cache
     /\ api_connected' = r.connected
     /\ api_backend' = r.backend
     /\ last_status' = r.last_status
     /\ ingested' = msg
     /\ busy' = busy_after_ingest(msg)
     /\ apiCall' = Call("ingest_env_message", PyObj, ArgNone, PyNone, "", FALSE, <<>>, FALSE)
     /\ UNCHANGED <<now, pipeVars, envVars, readyAt, motion, completed, task_success,
                    last_command, waitPc, deadline>>

\* API.wait_until_idle, up to the while test: float(timeout_s) may raise.
ApiWaitStart(timeout_s) ==
  /\ waitPc = "none"
  /\ IF FloatRaises(timeout_s)
     THEN /\ apiCall' = Call("wait_until_idle", PyObj, ArgNone, timeout_s, "", TRUE, <<>>, FALSE)
          /\ UNCHANGED <<waitPc, deadline>>
     ELSE /\ deadline' = now + PyMax(Num(0), timeout_s).v
          /\ now + PyMax(Num(0), timeout_s).v + MaxSleep <= MaxTime
          /\ waitPc' = "loop"
          /\ apiCall' = Call("wait_until_idle", PyObj, ArgNone, timeout_s, "", FALSE, <<>>, FALSE)
  /\ UNCHANGED <<now, pipeVars, envVars, busy, readyAt, cache, motion, api_connected,
                 api_backend, last_status, completed, task_success, ingested, last_command>>

\* The call ends with the value ret.
WaitReturns(ret) ==
  /\ waitPc' = "none"
  /\ apiCall' = [apiCall EXCEPT !.ret = ret]

\* while time.time() < deadline: if not self.is_busy(): return True
\* after the loop: return not self.is_busy()
ApiWaitTest ==
  /\ waitPc = "loop"
  /\ busy' = is_busy
  /\ IF now < deadline /\ is_busy
     THEN waitPc' = "sleep" /\ UNCHANGED apiCall
     ELSE WaitReturns(~is_busy)
  /\ UNCHANGED <<now, pipeVars, envVars, readyAt, cache, motion, api_connected, api_backend,
                 last_status, completed, task_success, ingested, last_command, deadline>>

\* time.sleep(0.05): at least the interval, at most MaxSleep.
ApiWaitSleep(d) ==
  /\ waitPc = "sleep"
  /\ now' = now + d
  /\ waitPc' = "loop"
  /\ UNCHANGED <<pipeVars, envVars, busy, readyAt, cache, apiCall, motion, api_connected,
                 api_backend, last_status, completed, task_success, ingested, last_command,
                 deadline>>

\* API.task_success
PyBool(flag) == IF flag THEN "True" ELSE "False"
ApiFlagCall(op) == Call(op, PyObj, ArgNone, PyNone, "", FALSE, <<>>, FALSE)
ApiTaskSuccess(flag) ==
  /\ task_success' = PyBool(flag)
  /\ completed' = flag
  /\ apiCall' = ApiFlagCall("task_success")
  /\ UNCHANGED <<now, pipeVars, envVars, busy, readyAt, cache, motion, api_connected,
                 api_backend, last_status, ingested, last_command, waitPc, deadline>>

\* API.set_task_success: completed = completed or bool(flag)
ApiSetTaskSuccess(flag) ==
  /\ task_success' = PyBool(flag)
  /\ completed' = (completed \/ flag)
  /\ apiCall' = ApiFlagCall("set_task_success")
  /\ UNCHANGED <<now, pipeVars, envVars, busy, readyAt, cache, motion, api_connected,
                 api_backend, last_status, ingested, last_command, waitPc, deadline>>

\* API.set_completed
ApiSetCompleted(flag) ==
  /\ completed' = flag
  /\ apiCall' = ApiFlagCall("set_completed")
  /\ UNCHANGED <<now, pipeVars, envVars, busy, readyAt, cache, motion, api_connected,
                 api_backend, last_status, task_success, ingested, last_command, waitPc,
                 deadline>>

\* Variant: only the completed flag counts.
check_task_success_CompletedOnly == completed

\* API.check_task_success: bool(_task_success or completed)
check_task_success == task_success = "True" \/ completed

\* A call that does nothing but send one packet.
ApiSends(op, pkt) ==
  /\ PipeSend(pkt)
  /\ apiCall' = Call(op, PyObj, ArgNone, PyNone, "", FALSE, <<pkt>>, FALSE)

\* API.print
ApiPrint(msg) ==
  /\ ApiSends("print", Msg(<<"log", msg, now>>))
  /\ UNCHANGED <<now, toCtl, parentOpen, observed, emitLog, delivered, envVars, busy, readyAt,
                 cache, motion, proxyVars>>

\* API.request_status
ApiRequestStatus ==
  /\ ApiSends("request_status", Msg(<<"ping", now>>))
  /\ UNCHANGED <<now, toCtl, parentOpen, observed, emitLog, delivered, envVars, busy, readyAt,
                 cache, motion, proxyVars>>

\* The command setter: str(cmd or ""); isNone: cmd is None.
ApiSetCommand(isNone, cmd) ==
  LET text == IF isNone THEN "" ELSE cmd
  IN /\ last_command' = text
     /\ ApiSends("command", Msg(<<"set_last_command", text, now>>))
     /\ UNCHANGED <<now, toCtl, parentOpen, observed, emitLog, delivered, envVars, busy,
                    readyAt, cache, motion, api_connected, api_backend, last_status,
                    completed, task_success, ingested, waitPc, deadline>>

\* main.py, a new command was entered: api.command = command;
\* api.completed = False
MainNewCommand(cmd) ==
  LET pkt == Msg(<<"set_last_command", cmd, now>>)
  IN /\ last_command' = cmd
     /\ PipeSend(pkt)
     /\ completed' = FALSE
     /\ apiCall' = Call("new_command", PyObj, ArgNone, PyNone, "", FALSE, <<pkt>>, FALSE)
     /\ UNCHANGED <<now, toCtl, parentOpen, observed, emitLog, delivered, envVars, busy,
                    readyAt, cache, motion, api_connected, api_backend, last_status,
                    task_success, ingested, waitPc, deadline>>

\* main.py, after a code block has run: if api.check_task_success()
MainCheck ==
  /\ apiCall' = Call("check_task_success", PyObj, ArgNone, PyNone, "", FALSE, <<>>,
                     check_task_success)
  /\ UNCHANGED <<now, pipeVars, envVars, busy, readyAt, cache, motion, proxyVars>>

\* Time passes: to the next coarse instant, or to an instant at which the
\* busy estimate is decided.
TickTargets ==
  {(now \div TickStep + 1) * TickStep, readyAt - 1, readyAt,
   motion.at + motion.dur, motion.at + motion.dur + GUARD_MAX}
Tick ==
  /\ \E t \in TickTargets : t > now /\ t <= MaxTime /\ now' = t
  /\ UNCHANGED <<pipeVars, envVars, apiVars>>

\* Arguments the issuing code may pass to the proxy.
ApiSpeedArgs == {PyNone, Num(0), Num(1000), PyNaN, PyStr}
ApiDeltaArgs == {PyList(<<0, 0, 0>>), PyList(<<0, 0, 2>>), PyList(<<0, 0, 500>>),
                 PyList(<<30, 40, 0>>), PyList(<<-300, 0, 400>>), PyList(<<1, 2>>), PyObj}
ApiLinearArgs ==
  {<<d, Num(100), "base">> : d \in ApiDeltaArgs}
  \cup {<<PyList(<<30, 40, 0>>), sp, "tool">> : sp \in ApiSpeedArgs}
  \cup {<<PyList(<<0, 0, 500>>), Num(1000), "world">>}
ApiCartesianArgs ==
  {<<pos, ArgNone, PyNone, "base">> :
     pos \in {PyList(<<100, 0, 0>>), PyList(<<0, 0, 300>>), PyList(<<1, 2>>), PyObj}}
  \cup {<<PyList(<<100, 0, 0>>), o, Num(1000), "tool">> :
          o \in {ArgList(<<1, 0, 0, 0>>), ArgList(<<0, 0, 1>>), ArgObj}}
  \cup {<<PyList(<<100, 0, 0>>), ArgNone, PyStr, "base">>,
        <<PyList(<<100, 0, 0>>), ArgNone, Num(0), "world">>}
ApiJointArgs ==
  {<<PyList(<<100, 0, 0, 0, 0, 0>>), sp>> : sp \in {Num(300), Num(10000), PyNaN, PyNone, PyStr}}
  \cup {<<PyList(<<1, 2, 3>>), Num(300)>>, <<PyObj, Num(300)>>}

\* The issuing code makes its calls at the coarse instants.
CallInstant == now % TickStep = 0

ApiCalls ==
  \/ \E a \in ApiLinearArgs : CallInstant /\ ApiMoveLinear(a[1], a[2], a[3])
  \/ \E a \in ApiCartesianArgs : CallInstant /\ ApiMoveCartesian(a[1], a[2], a[3], a[4])
  \/ \E a \in ApiJointArgs : CallInstant /\ ApiMoveJoints(a[1], a[2])
  \/ ApiIsBusy

\* main.py, after a code block has run: if parent_conn.poll():
\* env_response = parent_conn.recv()
MainRecv ==
  /\ observed
  /\ parentOpen
  /\ toCtl # <<>>
  /\ toCtl' = Tail(toCtl)
  /\ delivered' = delivered + 1
  /\ UNCHANGED <<now, toEnv, sends, parentOpen, observed, emitLog, envVars, apiVars>>

\* The calls the generated code makes while both processes run.
SystemCalls ==
  \/ ApiPrint("hello")
  \/ ApiRequestStatus
  \/ \E isNone \in BOOLEAN : ApiSetCommand(isNone, "polish")
  \/ ApiMoveLinear(PyList(<<0, 0, 500>>), Num(100), "base")
  \/ ApiMoveCartesian(PyList(<<100, 0, 0>>), ArgNone, PyNone, "base")
  \/ \E q \in {PyList(<<100, 0, 0, 0, 0, 0>>), PyList(<<1, 2, 3>>)} : ApiMoveJoints(q, Num(300))

\* Another holder of the control end writes a joint move of the wrong length,
\* a packet with a tag the loop does not know, or an object that is no list.
SystemRawPackets == {Msg(<<"move_joints", <<1, 2, 3>>, Num(300), 0>>), Msg(<<"abort", 0>>), NonList}
SystemRaw == \E pkt \in SystemRawPackets : RawSend(pkt)

\* Both processes and the pipe between them, followed packet by packet.
InitSystem == Started /\ observed = TRUE
NextSystem == SystemCalls \/ SystemRaw \/ EnvStep \/ MainRecv \/ ParentClose
Spec == InitSystem /\ [][NextSystem]_vars

\* pkt = child_conn.recv(): the motion process takes the next packet (what it
\* does with it is SpecEnv's subject).
PeerTakes ==
  /\ toEnv # <<>>
  /\ toEnv' = Tail(toEnv)
  /\ UNCHANGED <<now, sends, toCtl, parentOpen, observed, emitLog, delivered, envVars, apiVars>>

\* wait_until_idle among the motion requests that make the proxy busy; the
\* proxy is single-threaded, so nothing else runs while it waits.
WaitTimeouts == {Num(0), Num(20), Num(100), Num(-50), PyNaN, PyStr}
WaitLinearArgs == {<<PyList(<<0, 0, 2>>), Num(1000), "base">>}
SleepTimes == {SLEEP_S, MaxSleep}
WaitStep == ApiWaitTest \/ \E d \in SleepTimes : ApiWaitSleep(d)
NextWait ==
  \/ \E t \in WaitTimeouts : ApiWaitStart(t)
  \/ WaitStep
  \/ \E a \in WaitLinearArgs : waitPc = "none" /\ ApiMoveLinear(a[1], a[2], a[3])
  \/ waitPc = "none" /\ Tick
SpecWait == Init /\ [][NextWait]_vars /\ WF_vars(WaitStep)

\* The proxy driven by the issuing code, with the clock.
NextApi == ApiCalls \/ Tick \/ PeerTakes
SpecApi == Init /\ [][NextApi]_vars

\* ------------------------------------------------------------ properties
\* Readers of packets and of the loop's state.
IsStatus(p) == p.list /\ p.f # <<>> /\ p.f[1] = "status"
IsDebug(p) == p.list /\ p.f # <<>> /\ p.f[1] = "debug"
IsStatusError(p) == IsStatus(p) /\ p.f[2] = "error"
StatusCount(ps) == Cardinality({i \in 1..Len(ps) : IsStatus(ps[i])})
DebugCount(ps) == Cardinality({i \in 1..Len(ps) : IsDebug(ps[i])})
Tagged(p) == p.list /\ p.f # <<>>
Running == envPc \in {"recv", "driver"}
MotionTags == {"move_linear", "move_cartesian", "move_joints"}
InRange(x, lo, hi) == x.k = "num" /\ lo <= x.v /\ x.v <= hi
Names(p, tag) == \E i \in 1..Len(p.f[3]) : p.f[3][i] = tag

\* C1: while the packet the loop handled last carries a tag outside the six
\* known ones, the loop has sent exactly one status packet for it, that packet
\* is a status error, no driver motion call was made for it and the loop is
\* still running at its receive; and a packet with a known tag that follows an
\* unknown one is dispatched and answered like any other.
C1_UnknownTagReported ==
  /\ (Tagged(cur) /\ cur.f[1] \notin KnownTags) =>
       /\ envPc = "recv"
       /\ StatusCount(emitted) = 1
       /\ \E i \in 1..Len(emitted) : IsStatusError(emitted[i])
       /\ drvCalls = 0
       /\ drv = NoCall
       /\ inFlight = 0
  /\ (prevUnknown /\ Tagged(cur) /\ cur.f[1] \in KnownTags) =>
       /\ Running
       /\ emitted # <<>>
       /\ cur.f[1] = "ping" => emitted[1].f[1] = "pong"
C1_Witness ==
  /\ prevUnknown
  /\ Tagged(cur)
  /\ cur.f[1] = "move_linear"
  /\ drvCalls = 1
  /\ envPc = "recv"
  /\ IsStatus(emitted[Len(emitted)])
  /\ emitted[Len(emitted)].f[2] = "idle"

\* C2: whenever an exception was raised while the loop dispatched a packet,
\* the loop is back at its receive, and the last two packets it sent are a
\* status error whose message names the packet's tag followed by a debug
\* packet; and the loop ends only from its receive, without consuming a packet.
C2_Contained ==
  excepted =>
    /\ envPc = "recv"
    /\ Len(emitted) >= 2
    /\ IsStatusError(emitted[Len(emitted) - 1])
    /\ Names(emitted[Len(emitted) - 1], cur.f[1])
    /\ IsDebug(emitted[Len(emitted)])
C2_DispatchErrorsContained ==
  [][/\ C2_Contained'
     /\ (Running /\ envPc' = "done") => (envPc = "recv" /\ toEnv' = toEnv)]_vars
C2_Witness ==
  /\ excepted
  /\ cur.f[1] = "move_linear"
  /\ drvCalls = 1
  /\ envPc = "recv"
  /\ toEnv # <<>>

\* C3: when the start-up connect fails, the process has ended without ever
\* entering its loop, having sent exactly one status packet, which is a
\* status error, and exactly one debug packet; and the loop is only ever
\* running with both driver interfaces connected.
C3_ConnectFailureEnds ==
  /\ (envPc = "done" /\ ~everRan) =>
       /\ Len(emitted) = 2
       /\ StatusCount(emitted) = 1
       /\ IsStatusError(emitted[1])
       /\ DebugCount(emitted) = 1
       /\ cur = NonList
       /\ drvCalls = 0
  /\ Running => (everRan /\ is_connected)
  /\ (envPc = "start") => ~everRan
C3_Witness ==
  /\ envPc = "done"
  /\ ~everRan
  /\ linkC = "open"
  /\ linkR = "closed"
  /\ toEnv # <<>>

\* C4: at most one driver motion call is in progress at any time, and none is
\* in progress while the loop waits at its receive, so a packet is received
\* only after the call made for the previous one has returned.
C4_OneDriverCallAtATime ==
  /\ inFlight <= 1
  /\ (envPc # "driver") => (inFlight = 0 /\ drv = NoCall /\ ~moving)
  /\ (envPc = "driver") => (inFlight = 1 /\ drv.op \in {"moveL", "moveJ"})
C4_Witness ==
  /\ envPc = "driver"
  /\ inFlight = 1
  /\ toEnv # <<>>
  /\ Tagged(Head(toEnv))
  /\ Head(toEnv).f[1] \in MotionTags

\* C5: every driver moveL call carries a speed in [0.01, 0.25] m/s and every
\* driver moveJ call a speed in [0.05, 1.5] rad/s, whatever packet caused it.
C5_DriverSpeedClamped ==
  /\ (drv.op = "moveL") => InRange(drv.v, LIN_SPEED_LO, LIN_SPEED_HI)
  /\ (drv.op = "moveJ") => InRange(drv.v, JOINT_SPEED_LO, JOINT_SPEED_HI)
C5_Witness ==
  /\ drv.op = "moveJ"
  /\ cur.f[1] = "move_joints"
  /\ cur.f[3] = Num(100000)
  /\ drv.v = Num(JOINT_SPEED_HI)

\* The squared length of the delta in a move_linear packet of the proxy, and
\* whether two vectors point the same way.
SentDelta == apiCall.sent[1].f[2]
Dot(a, b) == a[1] * b[1] + a[2] * b[2] + a[3] * b[3]
SameDirection(a, b) ==
  /\ a[1] * b[2] = a[2] * b[1]
  /\ a[1] * b[3] = a[3] * b[1]
  /\ a[2] * b[3] = a[3] * b[2]
  /\ Dot(a, b) > 0
LengthInStepRange(d) ==
  SAFE_MIN_STEP_M * SAFE_MIN_STEP_M <= SumSq(d) /\ SumSq(d) <= SAFE_MAX_STEP_M * SAFE_MAX_STEP_M
LinearSent == apiCall.op = "move_linear" /\ ~apiCall.raised /\ apiCall.sent # <<>>

\* C6 (as stated): for every 3-element delta given to API.move_linear, the
\* zero vector included, the delta in the packet sent has a length in
\* [0.005, 0.20] m, and for a non-zero delta it points the same way.
C6_AsStated ==
  LinearSent =>
    /\ LengthInStepRange(SentDelta)
    /\ SumSq(apiCall.vec.items) > 0 => SameDirection(SentDelta, apiCall.vec.items)

\* C6 (amended): for every 3-element delta of positive length given to
\* API.move_linear the delta in the packet sent has a length in [0.005, 0.20] m
\* and points the same way; a zero delta is sent unchanged, with length 0.
C6_NonZeroDeltaClamped ==
  LinearSent =>
    /\ SumSq(apiCall.vec.items) > 0 =>
         /\ LengthInStepRange(SentDelta)
         /\ SameDirection(SentDelta, apiCall.vec.items)
    /\ SumSq(apiCall.vec.items) = 0 => SentDelta = apiCall.vec.items
C6_Witness ==
  /\ LinearSent
  /\ apiCall.vec.items = <<0, 0, 2>>
  /\ SentDelta = <<0, 0, SAFE_MIN_STEP_M>>

\* C7: every motion packet the proxy sends carries a clamped speed: in
\* [0.01, 0.25] m/s for move_linear and move_cartesian (0.05 m/s when the
\* caller gave none), in [0.05, 1.5] rad/s for move_joints.
C7_SentSpeedClamped ==
  (apiCall.op \in MotionTags /\ apiCall.sent # <<>>) =>
    LET f == apiCall.sent[1].f
    IN /\ (f[1] = "move_linear") =>
            /\ InRange(f[3], SAFE_MIN_SPEED, SAFE_MAX_SPEED)
            /\ apiCall.speed = PyNone => f[3] = Num(SAFE_DEFAULT_SPEED)
       /\ (f[1] = "move_cartesian") =>
            /\ InRange(f[4], SAFE_MIN_SPEED, SAFE_MAX_SPEED)
            /\ apiCall.speed = PyNone => f[4] = Num(SAFE_DEFAULT_SPEED)
       /\ (f[1] = "move_joints") => InRange(f[3], JOINT_SPEED_LO, JOINT_SPEED_HI)

\* C8: the target of every driver moveL call is at most 0.20 m away from the
\* position the arm has when the call is made.
C8_TargetWithinStep ==
  (drv.op = "moveL") =>
    SumSq(<<drv.target[1] - robot[1], drv.target[2] - robot[2], drv.target[3] - robot[3]>>)
      <= SAFE_MAX_STEP_M * SAFE_MAX_STEP_M

\* C9: is_busy() made after a motion request of the proxy at time t with
\* estimated duration d, no other request in between, returns true at t and
\* at any time before t + d, and false at or after t + d + 0.5 s.
C9_BusyWindow ==
  (apiCall.op = "is_busy" /\ motion.op # "none") =>
    /\ (now < motion.at + motion.dur \/ now = motion.at) => apiCall.ret
    /\ (now >= motion.at + motion.dur + GUARD_MAX) => ~apiCall.ret

\* The argument faults C10 is about.
BadVector(v, n) == ~v.isList \/ Len(v.items) # n
BadOrientation(o) == ~o.isNone /\ (~o.isList \/ Len(o.items) # 4)
InvalidArguments(c) ==
  \/ c.op = "move_linear" /\ (BadVector(c.vec, 3) \/ c.frame \notin {"tool", "base"})
  \/ c.op = "move_cartesian" /\
       (BadVector(c.vec, 3) \/ BadOrientation(c.orient) \/ c.frame \notin {"tool", "base"})
  \/ c.op = "move_joints" /\ BadVector(c.vec, 6)

\* C10: a motion call on the proxy with a vector of the wrong type or length,
\* an orientation that is neither None nor a 4-element list, or a frame other
\* than "tool" and "base" raises, and a call that raises sends no packet and
\* leaves the busy flag, the ready time and the position cache as they were.
C10_Rejected == InvalidArguments(apiCall) => (apiCall.raised /\ apiCall.sent = <<>>)
C10_RejectedCallsChangeNothing ==
  [][/\ C10_Rejected'
     /\ (apiCall' # apiCall /\ apiCall'.raised) =>
          (toEnv' = toEnv /\ sends' = sends /\ busy' = busy /\ readyAt' = readyAt
           /\ cache' = cache /\ motion' = motion)]_vars
C10_Witness ==
  /\ apiCall.raised
  /\ apiCall.op = "move_cartesian"
  /\ apiCall.frame = "world"
  /\ busy
  /\ toEnv # <<>>
  /\ cache # <<0, 0, 0>>


\* ------------------------------------------- the proxy's cached fields
\* Messages that may be handed to ingest_env_message.
IngestStatusInputs ==
  {Msg(<<"status", "idle", <<"done">>, PosList(<<10, 20, 30>>), <<0, 0, 0, 1>>, ZeroJoints, 0>>),
   Msg(<<"status", "error", <<"failed">>, PosList(<<0, 0, 0>>), <<0, 0, 0, 1>>, ZeroJoints, 0>>)}
  \cup {Msg(<<"status", "moving", <<"done">>, pos, <<0, 0, 0, 1>>, ZeroJoints, 0>>) :
          pos \in {PosList(<<1, 2>>), PosNotNumeric}}
  \cup {Msg(<<"status", "paused", <<"done">>, PosObj, <<0, 0, 0, 1>>, ZeroJoints, 0>>)}
  \cup {Msg(<<"status", "idle", <<"done">>, PosList(<<7, 7, 7>>)>>)}
IngestDebugInputs ==
  {Msg(<<"debug", [text |-> <<"[env] using backend:", "rtde">>, data |-> <<>>], 0>>),
   Msg(<<"debug", [text |-> <<"[env] terminated">>, data |-> <<>>], 0>>),
   Msg(<<"debug", [text |-> <<"[env] using backend:", "sim">>, data |-> <<>>]>>)}
IngestPongInputs ==
  {Msg(<<"pong", "rtde", TRUE, 0>>), Msg(<<"pong", "sim", FALSE, 0>>),
   Msg(<<"pong", "sim", TRUE>>)}
IngestOtherInputs == {NonList, Msg(<<>>), Msg(<<"hello", 0>>)}
\* Motion requests that move the cache optimistically.
ProxyLinearArgs ==
  {<<PyList(<<0, 0, 500>>), Num(1000), "base">>, <<PyList(<<30, 40, 0>>), PyNone, "tool">>,
   <<PyList(<<0, 0, 2>>), Num(0), "base">>, <<PyList(<<0, 0, 0>>), PyNone, "base">>}
ProxyCartesianArgs == {<<PyList(<<100, 0, 0>>), ArgNone, PyNone, "base">>}

ProxyCalls ==
  \/ \E a \in ProxyLinearArgs : ApiMoveLinear(a[1], a[2], a[3])
  \/ \E a \in ProxyCartesianArgs : ApiMoveCartesian(a[1], a[2], a[3], a[4])
  \/ \E m \in IngestStatusInputs : ApiIngest(m)
  \/ \E m \in IngestDebugInputs : ApiIngest(m)
  \/ \E m \in IngestPongInputs : ApiIngest(m)
  \/ \E m \in IngestOtherInputs : ApiIngest(m)
  \/ \E flag \in BOOLEAN : ApiTaskSuccess(flag)

\* The proxy's cached fields under motion requests and incoming messages.
NextProxy == ProxyCalls
SpecProxy == Init /\ [][NextProxy]_vars

\* The proxy's completion estimate and task flags under incoming messages,
\* one motion request, is_busy(), the flag setters and the clock.
FlagsLinearArgs == {<<PyList(<<0, 0, 2>>), Num(1000), "base">>}
FlagsMessages ==
  {Msg(<<"status", "idle", <<"done">>, PosList(<<10, 20, 30>>), <<0, 0, 0, 1>>, ZeroJoints, 0>>),
   Msg(<<"status", "error", <<"failed">>, PosList(<<0, 0, 0>>), <<0, 0, 0, 1>>, ZeroJoints, 0>>),
   Msg(<<"debug", [text |-> <<"[env] using backend:", "rtde">>, data |-> <<>>], 0>>),
   Msg(<<"pong", "rtde", TRUE, 0>>),
   NonList}
NextFlags ==
  \/ \E m \in FlagsMessages : ApiIngest(m)
  \/ PeerTakes
  \/ \E a \in FlagsLinearArgs : CallInstant /\ ApiMoveLinear(a[1], a[2], a[3])
  \/ ApiIsBusy
  \/ ApiTaskSuccess(TRUE)
  \/ CallInstant /\ ApiSetCommand(FALSE, "polish")
  \/ Tick
SpecFlags == Init /\ [][NextFlags]_vars

\* The control side hands the next packet of the motion process to
\* ingest_env_message.
IngestNext ==
  /\ observed
  /\ parentOpen
  /\ toCtl # <<>>
  /\ LET msg == Incoming(Head(toCtl))
         r == ingest_env_message(msg)
     IN /\ cache' = r.cache
        /\ api_connected' = r.connected
        /\ api_backend' = r.backend
        /\ last_status' = r.last_status
        /\ ingested' = msg
        /\ busy' = busy_after_ingest(msg)
  /\ apiCall' = Call("ingest_env_message", PyObj, ArgNone, PyNone, "", FALSE, <<>>, FALSE)
  /\ toCtl' = Tail(toCtl)
  /\ delivered' = delivered + 1
  /\ UNCHANGED <<now, toEnv, sends, parentOpen, observed, emitLog, envVars, readyAt, motion,
                 completed, task_success, last_command, waitPc, deadline>>

\* The calls of the issuing code, and a packet with an unknown tag written by
\* another holder of the control end.
IngestCalls ==
  \/ \E text \in {"hello", "using backend: sim"} : ApiPrint(text)
  \/ ApiRequestStatus
  \/ ApiSetCommand(FALSE, "using backend: sim")
  \/ ApiMoveLinear(PyList(<<0, 0, 150>>), Num(100), "base")
  \/ RawSend(Msg(<<"abort", 0>>))

\* The motion process with a control side that ingests every packet it sends.
NextIngest ==
  \/ IngestCalls
  \/ \E o \in ConnectOutcomes, rd \in ReadOutcomes : EnvStart(o, rd)
  \/ EnvLog
  \/ EnvPing
  \/ EnvSetLastCommand
  \/ \E r1, r2, r3 \in ReadOutcomes : SameQuality({r1, r2, r3}) /\ EnvMoveLinear(r1, r2, r3)
  \/ EnvUnknown
  \/ \E o \in DriverOutcomes, r4, r5 \in ReadOutcomes :
       SameQuality({r4, r5}) /\ EnvDriverReturn(o, r4, r5)
  \/ \E fault \in ShutdownFaults : EnvRecvEOF(fault)
  \/ IngestNext
  \/ ParentClose
SpecIngest == InitSystem /\ [][NextIngest]_vars

\* The orchestration loop: commands are entered one after another, and the
\* code run for a command may call the flag setters.
Commands == {"polish", "retract"}
NextTask ==
  \/ \E cmd \in Commands : MainNewCommand(cmd)
  \/ \E flag \in BOOLEAN : last_command # "" /\ ApiTaskSuccess(flag)
  \/ \E flag \in BOOLEAN : last_command # "" /\ ApiSetTaskSuccess(flag)
  \/ \E flag \in BOOLEAN : last_command # "" /\ ApiSetCompleted(flag)
  \/ last_command # "" /\ MainCheck
  \/ PeerTakes
SpecTask == Init /\ [][NextTask]_vars

\* A status message as the wire schema has it: seven fields, the fourth a
\* list of three numbers.
SchemaStatus(m) ==
  /\ m.list
  /\ Len(m.f) = 7
  /\ m.f[1] = "status"
  /\ m.f[4].isList /\ Len(m.f[4].items) = 3 /\ m.f[4].numeric
Ingesting == apiCall.op = "ingest_env_message"

\* C11: right after ingest_env_message was given a status message of the wire
\* schema, the pose cache equals the position that message carries, whatever
\* motion requests moved the cache before, and get_pose() returns that
\* position for both frames.
C11_StatusOverwritesCache ==
  (Ingesting /\ SchemaStatus(ingested)) =>
    /\ ~apiCall.raised
    /\ cache = ingested.f[4].items
    /\ last_status = ingested
    /\ \A fr \in ValidFrames :
         ~get_pose(fr).raised /\ get_pose(fr).ret = ingested.f[4].items
C11_Witness ==
  /\ Ingesting
  /\ SchemaStatus(ingested)
  /\ motion.op = "move_linear"
  /\ sends = 1
  /\ cache = <<10, 20, 30>>
  /\ get_pose("tool").ret = <<10, 20, 30>>

\* C12: a successful API.move_linear changes the pose cache by exactly the
\* delta it put in the packet; move_linear([0,0,0.5], speed=1.0, frame="base")
\* sends delta [0,0,0.20] with speed 0.25 and adds 0.20 to the cached z only.
C12_CacheFollowsSentDelta ==
  [][(sends' # sends /\ apiCall'.op = "move_linear") =>
       LET pkt == apiCall'.sent[1]
           d == pkt.f[2]
       IN /\ apiCall'.sent = <<toEnv'[Len(toEnv')]>>
          /\ cache' = <<cache[1] + d[1], cache[2] + d[2], cache[3] + d[3]>>
          /\ (apiCall'.vec = PyList(<<0, 0, 500>>) /\ apiCall'.speed = Num(1000)
              /\ apiCall'.frame = "base") =>
               /\ d = <<0, 0, 200>>
               /\ pkt.f[3] = Num(250)
               /\ pkt.f[4] = "base"
               /\ cache' = <<cache[1], cache[2], cache[3] + 200>>]_vars
C12_Witness ==
  /\ apiCall.op = "move_linear"
  /\ apiCall.vec = PyList(<<0, 0, 500>>)
  /\ apiCall.speed = Num(1000)
  /\ apiCall.sent # <<>>
  /\ last_status # NonList
  /\ cache = <<10, 20, 230>>

\* Messages ingest_env_message has to drop: not a list, empty, an unknown
\* tag, or a status/debug/pong shorter than 7/3/4 fields.
Dropped(m) ==
  \/ ~m.list
  \/ m.f = <<>>
  \/ m.f[1] \notin {"status", "debug", "pong"}
  \/ m.f[1] = "status" /\ Len(m.f) < 7
  \/ m.f[1] = "debug" /\ Len(m.f) < 3
  \/ m.f[1] = "pong" /\ Len(m.f) < 4

\* C13: ingest_env_message never raises, and when the message it was given is
\* one it has to drop, the call leaves the pose cache, the connected flag, the
\* backend name, the last status, the busy flag, the ready time and the
\* success flags as they were.
C13_IngestDropsQuietly ==
  [][(apiCall'.op = "ingest_env_message") =>
       /\ ~apiCall'.raised
       /\ Dropped(ingested') =>
            UNCHANGED <<cache, api_connected, api_backend, last_status, busy, readyAt,
                        completed, task_success>>]_vars
C13_Witness ==
  /\ Ingesting
  /\ ingested.list
  /\ ingested.f # <<>>
  /\ ingested.f[1] = "status"
  /\ Len(ingested.f) < 7
  /\ cache = <<10, 20, 30>>
  /\ api_connected
  /\ api_backend = "rtde"
  /\ task_success = "True"
  /\ busy


\* The states of the status packets sent for the request being handled.
StatusStates(ps) ==
  LET st == SelectSeq(ps, IsStatus) IN [i \in 1..Len(st) |-> st[i].f[2]]
DebugText(p, text) == IsDebug(p) /\ p.f[2].text = text
\* The loop has left through its finally block.
Terminated == envPc = "done" /\ everRan
C14_ShutDown ==
  Terminated =>
    /\ shutdowns = 1
    /\ ~rtde_c
    /\ ~rtde_r
    /\ Len(emitted) >= 2
    /\ DebugText(emitted[Len(emitted) - 1], <<"[rtde] shutdown complete">>)
    /\ DebugText(emitted[Len(emitted)], <<"[env] terminated">>)

\* C14: a failed receive ends the loop: the step that fails takes no packet
\* off the channel, shutdown has then been called exactly once, the last two
\* packets sent are the backend's "shutdown complete" debug and then the
\* "[env] terminated" debug, and from then on nothing is received, dispatched,
\* sent or shut down again.
C14_ReceiveFailureTerminates ==
  [][/\ shutdowns' <= 1
     /\ C14_ShutDown'
     /\ (Running /\ envPc' = "done") => (toEnv' = toEnv /\ drvCalls' = 0)
     /\ envPc = "done" =>
          /\ UNCHANGED <<envPc, cur, emitted, drvCalls, drv, shutdowns, robot, joints>>
          /\ Len(toEnv') >= Len(toEnv)]_vars
C14_Witness ==
  /\ Terminated
  /\ toEnv # <<>>
  /\ IsStatusError(emitted[1])
  /\ emitted[1].f[3] = <<"pipe recv failed">>
  /\ Len(emitted) = 3

\* C15: a motion process that ended because connect failed has called
\* backend.shutdown(), and neither driver link is still open.
C15_ConnectFailureShutsDown ==
  (envPc = "done" /\ ~everRan) =>
    /\ shutdowns >= 1
    /\ linkC # "open"
    /\ linkR # "open"

\* C16: once the driver call made for a motion request has ended, the status
\* packets sent for the request are "moving" and then one more, which is "idle"
\* when the call returned success and "error" when it did not.
C16_TerminalStatusFollowsDriver ==
  (envPc = "recv" /\ drvResult # "none") =>
    StatusStates(emitted) = <<"moving", IF drvResult = "ok" THEN "idle" ELSE "error">>

\* C20: once shutdown has returned the backend holds no driver object and
\* disconnect has been called on the control link and on the telemetry link.
C20_ShutdownDisconnectsBoth ==
  shutdowns >= 1 =>
    /\ ~rtde_c
    /\ ~rtde_r
    /\ linkC \in {"closed", "failed"}
    /\ linkR \in {"closed", "failed"}

JointVector(p) == FieldOr(p.f, 2, ZeroJoints)
WrongLengthJoints(p) == Tagged(p) /\ p.f[1] = "move_joints" /\ Len(JointVector(p)) # 6
RejectedJoints ==
  /\ apiCall.op = "move_joints"
  /\ ~(apiCall.vec.isList /\ Len(apiCall.vec.items) = 6)

\* C17: the joint vector of a driver moveJ call has six elements; a
\* move_joints call on the proxy whose vector is not a list of six raises and
\* sends nothing; and for a move_joints packet whose vector has another length
\* the loop makes no driver call and sends one status, "error".
C17_JointVectorLength ==
  /\ drv.op = "moveJ" => Len(drv.target) = 6
  /\ RejectedJoints => (apiCall.raised /\ apiCall.sent = <<>>)
  /\ (Running /\ WrongLengthJoints(cur)) =>
       /\ drvCalls = 0
       /\ drv.op = "none"
       /\ StatusStates(emitted) = <<"error">>
C17_Witness ==
  /\ RejectedJoints
  /\ apiCall.vec = PyList(<<1, 2, 3>>)
  /\ sends = 1
  /\ Running
  /\ WrongLengthJoints(cur)
  /\ IsStatusError(emitted[1])

\* The motion process takes a step.
EnvActs == envPc' # envPc \/ Len(toEnv') < Len(toEnv)
\* The packets it sends in that step.
NewPackets ==
  IF envPc \in {"start", "driver"} THEN SubSeq(emitted', Len(emitted) + 1, Len(emitted'))
  ELSE emitted'
\* Every logged packet is read or still on the pipe, and the log is in the
\* order of the commands.
InCommandOrder ==
  /\ Len(emitLog) = delivered + Len(toCtl)
  /\ \A i, j \in 1..Len(emitLog) : i < j => emitLog[i] <= emitLog[j]

FieldCount(tag) ==
  CASE tag = "log" -> 3
    [] tag = "ping" -> 2
    [] tag = "set_last_command" -> 3
    [] tag = "move_linear" -> 5
    [] tag = "move_cartesian" -> 6
    [] tag = "move_joints" -> 4
    [] tag = "status" -> 7
    [] tag = "debug" -> 3
    [] tag = "pong" -> 4
    [] OTHER -> 0
ReplyTags == {"status", "debug", "pong"}
OnSchema(p, tags) ==
  /\ Tagged(p)
  /\ p.f[1] \in tags
  /\ Len(p.f) = FieldCount(p.f[1])
  /\ p.f[Len(p.f)] = now
PassesIngest(p) ==
  LET msg == Incoming(p)
  IN IngestTakesStatus(msg) \/ IngestTakesDebug(msg) \/ IngestTakesPong(msg)
HandlingProxyPacket == Running /\ apiCall.sent # <<>> /\ cur = apiCall.sent[1]

\* C19: the packet a proxy call sends has a command tag first, the send time
\* last and the field count of its tag; when the loop handles it, it answers
\* neither "unknown op" nor "ignore invalid pkt"; every packet the motion
\* process sends has a reply tag first, the send time last and the field count
\* of its tag, and is taken by one of the branches of ingest_env_message.
C19_PacketsOnSchema ==
  /\ \A i \in 1..Len(apiCall.sent) : OnSchema(apiCall.sent[i], KnownTags)
  /\ HandlingProxyPacket =>
       \A i \in 1..Len(emitted) :
         /\ ~(IsStatusError(emitted[i]) /\ emitted[i].f[3][1] = "unknown op")
         /\ ~DebugText(emitted[i], <<"[env] ignore invalid pkt">>)
  /\ \A i \in 1..Len(emitted) : OnSchema(emitted[i], ReplyTags) /\ PassesIngest(emitted[i])
  /\ \A i \in 1..Len(toCtl) : OnSchema(toCtl[i], ReplyTags) /\ PassesIngest(toCtl[i])
C19_Witness ==
  /\ HandlingProxyPacket
  /\ cur.f[1] = "move_cartesian"
  /\ Len(emitted) >= 3
  /\ \E i \in 1..Len(toCtl) : toCtl[i].f[1] = "pong"

\* wait_until_idle returns (without raising) in this step.
WaitEnds == waitPc = "loop" /\ waitPc' = "none"

\* The last clause of C21 as stated: a busy estimate that runs past the
\* deadline makes the call return false.
C21_AsStated ==
  [][(WaitEnds /\ busy /\ readyAt > deadline) => ~apiCall'.ret]_vars

\* C21: wait_until_idle ends; it returns true exactly when the busy flag is
\* clear as it returns, returns true whenever the proxy was not busy or readyAt
\* falls before the deadline, returns false only with the deadline reached, and
\* returns false when the busy estimate has not expired at the time of its last
\* is_busy call (which may be up to one sleep later than the deadline).
C21_WaitUntilIdle ==
  /\ [][WaitEnds =>
          /\ apiCall'.ret = ~busy'
          /\ (~busy \/ readyAt < deadline) => apiCall'.ret
          /\ ~apiCall'.ret => now >= deadline
          /\ (busy /\ now < readyAt) => ~apiCall'.ret]_vars
  /\ (waitPc # "none") ~> (waitPc = "none")
C21_Witness ==
  /\ apiCall.op = "wait_until_idle"
  /\ waitPc = "none"
  /\ ~apiCall.raised
  /\ ~apiCall.ret
  /\ apiCall.speed = Num(20)
  /\ busy
  /\ now > deadline

\* C23: the backend's moving flag is set exactly while the loop is inside a
\* driver call; it is clear whenever the loop is blocked in recv, before the
\* loop starts and after it has ended, however the last operation ended.
C23_MovingOnlyWhileExecuting ==
  /\ envPc = "driver" => moving
  /\ envPc # "driver" => ~moving
C23_Witness ==
  /\ envPc = "recv"
  /\ Tagged(cur)
  /\ cur.f[1] = "move_cartesian"
  /\ drvResult = "raise"
  /\ excepted
  /\ ~moving

\* The debug packet that carries the target and the speed and acceleration.
TargetDebug(p) ==
  IsDebug(p) /\ p.f[2].text \in {<<"[rtde] moveL">>, <<"[rtde] moveJ">>}
\* The backend has begun the motion request being handled.
MotionBegun ==
  /\ Running
  /\ Tagged(cur)
  /\ cur.f[1] \in MotionTags
  /\ StatusStates(emitted) # <<>>
  /\ StatusStates(emitted)[1] = "moving"

\* C24: for a motion request the backend has begun, the packets sent include
\* the debug packet with the target, speed and acceleration.
C24_TargetDebugAlways ==
  MotionBegun => \E i \in 1..Len(emitted) : TargetDebug(emitted[i])

\* Field i of a packet, or the default the claim names for it.
OrDefault(f, i, dflt) == IF i <= Len(f) THEN f[i] ELSE dflt
\* What the backend does for the packet with its missing fields filled in.
WithDefaults(f, r1, r2, r3) ==
  CASE f[1] = "log" ->
         Returned(<<DebugPkt(<<"[log]">> \o Words(OrDefault(f, 2, "")), <<>>)>>)
    [] f[1] = "ping" ->
         Returned(<<Msg(<<"pong", "rtde", is_connected, now>>)>>)
    [] f[1] = "set_last_command" ->
         Returned(<<DebugPkt(<<"[env] last_command=">> \o Words(OrDefault(f, 2, "")), <<>>)>>)
    [] f[1] = "move_linear" ->
         BaseBackend_move_linear(OrDefault(f, 2, <<0, 0, 0>>), OrDefault(f, 3, Num(UR_SPEED)),
                                 OrDefault(f, 4, "tool"), r1, r2, r3)
    [] f[1] = "move_cartesian" ->
         BaseBackend_move_cartesian(OrDefault(f, 2, <<0, 0, 0>>), OrDefault(f, 3, NoQuat),
                                    OrDefault(f, 4, Num(UR_SPEED)), OrDefault(f, 5, "tool"),
                                    r1, r2, r3)
    [] f[1] = "move_joints" ->
         BaseBackend_move_joints(OrDefault(f, 2, ZeroJoints), OrDefault(f, 3, Num(UR_JOINT_SPEED)),
                                 r1, r3)
\* A packet with a known tag that lacks trailing fields.
Truncated(p) == Tagged(p) /\ p.f[1] \in KnownTags /\ Len(p.f) < FieldCount(p.f[1])
\* C25: once the loop has dispatched a packet with a known tag that lacks
\* trailing fields (and before any driver call made for it has ended), what it
\* has sent, the driver call in progress and, for set_last_command, the
\* command text kept are those of the backend operation on the packet with the
\* defaults filled in ([0,0,0], six zeros, no orientation, "tool", the
\* configured speed, the empty text) under some outcome of the telemetry
\* reads; so an error status is sent only where the complete packet would get
\* one.
C25_MissingFieldsDefault ==
  (Running /\ Truncated(cur) /\ drvResult = "none") =>
    \E r1, r2, r3 \in ReadOutcomes :
      LET res == WithDefaults(cur.f, r1, r2, r3)
      IN /\ drv = res.call
         /\ emitted = res.emit \o (IF res.raised THEN OuterFail(cur.f[1]) ELSE <<>>)
         /\ cur.f[1] = "set_last_command" => lastCmdText = OrDefault(cur.f, 2, "")
\* A move_linear packet of one field has been executed as a zero move in the
\* tool frame and has ended "idle".
C25_Witness ==
  /\ envPc = "recv"
  /\ cur = Msg(<<"move_linear">>)
  /\ drvResult = "ok"
  /\ StatusStates(emitted) = <<"moving", "idle">>
  /\ emitted[1].f[3] = <<"move_linear", "frame", "tool">>

\* The loop takes the value at the head of its pipe in this step.
Takes == envPc = "recv" /\ toEnv # <<>> /\ toEnv' = Tail(toEnv)

\* C26: when the loop takes a value that is no list, or an empty list, it
\* sends one debug packet, "[env] ignore invalid pkt", and nothing else; it
\* makes no driver call and changes neither the command text nor anything else
\* of the backend or the arm, and it is blocked in recv again.
C26_InvalidPacketDropped ==
  [][(Takes /\ ~Tagged(Head(toEnv))) =>
       /\ Len(emitted') = 1
       /\ DebugText(emitted'[1], <<"[env] ignore invalid pkt">>)
       /\ StatusCount(emitted') = 0
       /\ drvCalls' = 0
       /\ envPc' = "recv"
       /\ UNCHANGED <<lastCmdText, drv, inFlight, moving, robot, joints, rtde_c, rtde_r,
                      linkC, linkR, shutdowns>>]_vars
C26_Witness ==
  /\ envPc = "recv"
  /\ cur = NonList
  /\ everRan
  /\ lastCmdText = "polish"
  /\ Len(emitted) = 1
  /\ DebugText(emitted[1], <<"[env] ignore invalid pkt">>)

\* C27: no partial connection is observable.  Once connect() or shutdown()
\* has returned or raised, the control and the telemetry handle are both set
\* or both cleared; is_connected() holds only when both are set, and then
\* both links are live; a connect() that failed leaves both cleared.
ConnectFailed == envPc = "done" /\ ~everRan
C27_NoPartialConnection ==
  (envPc # "start") =>
    /\ rtde_c = rtde_r
    /\ is_connected => (rtde_c /\ rtde_r /\ linkC = "open" /\ linkR = "open")
    /\ ConnectFailed => (~rtde_c /\ ~rtde_r /\ ~is_connected)
\* connect() failed while creating the telemetry link, after the control
\* link had been created.
C27_Witness ==
  /\ ConnectFailed
  /\ linkC = "open"
  /\ linkR = "closed"
  /\ ~rtde_c
  /\ ~rtde_r

\* C28: shutdown() is idempotent and releases each link at most once.
\* disconnect() is never called on a link it was called on before; a
\* shutdown() after the first makes no driver call, does not raise and
\* leaves both handles cleared.
C28_ShutdownIdempotent ==
  /\ linkC # "again"
  /\ linkR # "again"
  /\ \A f \in ShutdownFaults : ~RTDEBackend_shutdown(f).raised
  /\ (shutdowns >= 2) =>
       /\ shutCalls = <<>>
       /\ linkC \in {"open", "closed", "failed"}
       /\ linkR \in {"open", "closed", "failed"}
       /\ ~rtde_c
       /\ ~rtde_r
       /\ ~is_connected
       /\ envPc = "done"
\* A second shutdown() has run on a backend whose first shutdown() released
\* both links.
C28_Witness ==
  /\ shutdowns = 2
  /\ shutCalls = <<>>
  /\ linkC = "closed"
  /\ linkR = "closed"
  /\ ~rtde_c
  /\ ~rtde_r

\* C29: the connection state changes only in connect and shutdown.  From
\* entering the loop until termination starts, whatever packet was dispatched
\* and whether or not a motion failed, both handles are set and both links
\* are live, and every pong sent reports connected = true.
IsPong(p) == p.list /\ p.f # <<>> /\ p.f[1] = "pong"
C29_ConnectedWhileRunning ==
  /\ Running => (rtde_c /\ rtde_r /\ is_connected /\ linkC = "open" /\ linkR = "open")
  /\ \A i \in 1..Len(emitted) : IsPong(emitted[i]) => emitted[i].f[3] = TRUE
  /\ (Running /\ Tagged(cur) /\ cur.f[1] = "ping" /\ envPc = "recv") =>
       \E i \in 1..Len(emitted) : IsPong(emitted[i])
\* A ping handled as the second packet of a run, after a motion that failed
\* or not: its pong reports connected.
C29_Witness ==
  /\ envPc = "recv"
  /\ Received = 2
  /\ Tagged(cur)
  /\ cur.f[1] = "ping"
  /\ Len(emitted) = 1
  /\ IsPong(emitted[1])
  /\ emitted[1].f[3] = TRUE
  /\ is_connected

\* A status message whose ingestion runs to its end: seven fields or more,
\* and a position that is a list of three numbers or no list of three at all.
WholeStatus(m) ==
  /\ Tagged(m)
  /\ IngestTakesStatus(m)
  /\ ~(m.f[4].isList /\ Len(m.f[4].items) = 3 /\ ~m.f[4].numeric)
WholePong(m) == Tagged(m) /\ IngestTakesPong(m)

\* C30: right after a status packet was ingested the connected flag is true
\* exactly when the packet's state is "idle" or "moving"; right after a pong
\* was ingested the backend name and the connected flag are the values the
\* pong carries; ingesting a debug packet leaves the connected flag as it is.
C30_IngestSetsConnected ==
  /\ (Ingesting /\ WholeStatus(ingested)) =>
       api_connected = (ingested.f[2] \in {"idle", "moving"})
  /\ (Ingesting /\ WholePong(ingested)) =>
       (api_backend = ingested.f[2] /\ api_connected = ingested.f[3])
  /\ \A m \in IngestDebugInputs : ingest_env_message(m).connected = api_connected
\* A status with a state outside idle, moving and error was ingested after a
\* pong had set the flag: the flag is cleared, the backend name is kept.
C30_Witness ==
  /\ Ingesting
  /\ WholeStatus(ingested)
  /\ ingested.f[2] = "paused"
  /\ ~api_connected
  /\ api_backend = "rtde"

\* C31: no incoming message changes the completion estimate or the task
\* flags.  A call of ingest_env_message, whatever it is given, leaves the busy
\* flag, the ready time, completed, the task-success flag and last_command as
\* they were; the busy flag is cleared only by is_busy(), at or after the
\* ready time.
C31_IngestKeepsFlags ==
  [][/\ (apiCall'.op = "ingest_env_message") =>
          UNCHANGED <<busy, readyAt, completed, task_success, last_command>>
     /\ (busy /\ ~busy') => (apiCall'.op = "is_busy" /\ now >= readyAt)]_vars
\* An idle status was ingested while the proxy was busy with a motion request
\* and both task flags and the command text were set.
C31_Witness ==
  /\ Ingesting
  /\ ingested.list
  /\ ingested.f # <<>>
  /\ ingested.f[1] = "status"
  /\ ingested.f[2] = "idle"
  /\ Len(ingested.f) = 7
  /\ busy
  /\ now < readyAt
  /\ completed
  /\ task_success = "True"
  /\ last_command = "polish"

\* The driver is executing the moveL of a move_linear packet.
LinearExecuting == envPc = "driver" /\ Tagged(cur) /\ cur.f[1] = "move_linear"
\* The target move_linear has to hand the driver when get_tcp_pose() returned p.
LinearTarget(p, d, frame) ==
  LET R == axis_angle_to_R(p[4], p[5], p[6])
      b == IF frame = "tool" THEN mat_vec3(R, d) ELSE d
  IN <<p[1] + b[1], p[2] + b[2], p[3] + b[3], p[4], p[5], p[6]>>

\* C32: move_linear computes the driver target from the pose get_tcp_pose()
\* returned when the packet is executed (the arm's pose, or the zero pose for
\* an unusable telemetry answer).  With frame "base" the target position is
\* that position plus the delta, with frame "tool" it is that position plus
\* the delta rotated by the rotation matrix of that orientation: the delta
\* itself for the identity, (dx, -dy, -dz) for a half turn about x.  The
\* target orientation is the orientation read.
C32_LinearTargetFromCurrentPose ==
  LinearExecuting =>
    LET d == OrDefault(cur.f, 2, <<0, 0, 0>>)
        frame == OrDefault(cur.f, 4, "tool")
    IN \E p \in {robot, ZeroPose} :
         /\ IsStatus(emitted[1])
         /\ emitted[1].f[4] = <<p[1], p[2], p[3]>>
         /\ drv.op = "moveL"
         /\ drv.target = LinearTarget(p, d, frame)
         /\ <<drv.target[4], drv.target[5], drv.target[6]>> = <<p[4], p[5], p[6]>>
         /\ frame = "base" =>
              <<drv.target[1], drv.target[2], drv.target[3]>>
                = <<p[1] + d[1], p[2] + d[2], p[3] + d[3]>>
         /\ (frame = "tool" /\ <<p[4], p[5], p[6]>> = <<0, 0, 0>>) =>
              drv.target = LinearTarget(p, d, "base")
         /\ (frame = "tool" /\ <<p[4], p[5], p[6]>> = <<1, 0, 0>>) =>
              <<drv.target[1], drv.target[2], drv.target[3]>>
                = <<p[1] + d[1], p[2] - d[2], p[3] - d[3]>>
\* A tool-frame move of 0.3 m along z while the tool is turned half a turn
\* about x: the target lies 0.3 m below.
C32_Witness ==
  /\ LinearExecuting
  /\ Len(cur.f) = 5
  /\ cur.f[4] = "tool"
  /\ cur.f[2] = <<0, 0, 300>>
  /\ robot = <<100, 0, 0, 1, 0, 0>>
  /\ drv.target = <<100, 0, -300, 1, 0, 0>>

\* The loop is executing, or has handled, a move_cartesian packet.
CartesianExecuting == envPc = "driver" /\ Tagged(cur) /\ cur.f[1] = "move_cartesian"
CartesianHandled == envPc = "recv" /\ Tagged(cur) /\ cur.f[1] = "move_cartesian"
PacketOrientation == OrDefault(cur.f, 3, NoQuat)
TargetOrientation == <<drv.target[4], drv.target[5], drv.target[6]>>

\* C33: move_cartesian hands the driver the position of the packet as it is.
\* The target orientation is the orientation get_tcp_pose() returned when the
\* packet carries none, and the axis-angle conversion of the packet's
\* quaternion when it carries one (a half turn about x for [1,0,0,0]).  A
\* packet whose orientation has a length other than 4 is answered with a
\* status "error" and causes no driver call.
C33_CartesianTarget ==
  /\ CartesianExecuting =>
       LET pos == OrDefault(cur.f, 2, <<0, 0, 0>>)
           o == PacketOrientation
       IN /\ drv.op = "moveL"
          /\ <<drv.target[1], drv.target[2], drv.target[3]>> = pos
          /\ o.isNone =>
               \E p \in {robot, ZeroPose} :
                 /\ emitted[1].f[4] = <<p[1], p[2], p[3]>>
                 /\ TargetOrientation = <<p[4], p[5], p[6]>>
          /\ ~o.isNone =>
               /\ Len(o.q) = 4
               /\ TargetOrientation = quat_to_axis_angle(o.q)
               /\ o.q = <<1, 0, 0, 0>> => TargetOrientation = <<1, 0, 0>>
  /\ (CartesianHandled /\ ~PacketOrientation.isNone /\ Len(PacketOrientation.q) # 4) =>
       /\ drvCalls = 0
       /\ drv = NoCall
       /\ \E i \in 1..Len(emitted) : IsStatusError(emitted[i])
       /\ \A i \in 1..Len(emitted) : IsStatus(emitted[i]) => emitted[i].f[2] \in {"moving", "error"}
\* A move_cartesian without orientation while the tool is turned half a turn
\* about x: the target keeps that orientation.
C33_Witness ==
  /\ CartesianExecuting
  /\ PacketOrientation.isNone
  /\ robot = <<100, 0, 0, 1, 0, 0>>
  /\ drv.target = <<100, 0, 0, 1, 0, 0>>

\* The length of a quaternion, and what move_cartesian does with it when
\* no telemetry read fails.
QuatNorm(q) == Sqrt(SumSq(q))
Converts(q) ==
  BaseBackend_move_cartesian(<<100, 0, 0>>, Quat(q), Num(100), "base", "ok", "ok", "ok")

\* C34: a quaternion given to move_cartesian is normalised before it is
\* converted.  [0,0,0,2] is taken as the identity and gives the axis-angle
\* [0,0,0]; a quaternion of length zero is taken as the identity; a quaternion
\* of any other length gives the axis-angle of the unit quaternion of its
\* direction.  For no quaternion does the conversion raise: the divisors are
\* not zero and the argument of acos lies in [-1, 1], so the driver is called.
QuaternionGiven ==
  /\ Running
  /\ Tagged(cur)
  /\ cur.f[1] = "move_cartesian"
  /\ ~PacketOrientation.isNone
  /\ Len(PacketOrientation.q) = 4
C34_QuaternionNormalised ==
  /\ QuaternionGiven =>
       LET q == PacketOrientation.q
           n == QuatNorm(q)
           u == quat_normalize(q)
       IN /\ n = 0 => u = <<0, 0, 0, 1>>
          /\ n # 0 => (SumSq(u) = 1 /\ \A i \in 1..4 : u[i] * n = q[i])
          /\ u[4] \in -1..1
          /\ quat_to_axis_angle(q) = quat_to_axis_angle(u)
          /\ ~Converts(q).exc
          /\ Converts(q).call.op = "moveL"
  /\ (CartesianExecuting /\ ~PacketOrientation.isNone) =>
       /\ PacketOrientation.q = <<0, 0, 0, 2>> => TargetOrientation = <<0, 0, 0>>
       /\ PacketOrientation.q = <<0, 0, 0, 0>> => TargetOrientation = <<0, 0, 0>>
       /\ PacketOrientation.q = <<2, 0, 0, 0>> => TargetOrientation = <<1, 0, 0>>
       /\ PacketOrientation.q = <<0, 3, 0, 0>> => TargetOrientation = <<0, 1, 0>>
       /\ PacketOrientation.q = <<0, 0, -1, 0>> => TargetOrientation = <<0, 0, -1>>
\* The driver executes the move of a packet whose quaternion has length 3:
\* the target is turned half a turn about y.
C34_Witness ==
  /\ CartesianExecuting
  /\ ~PacketOrientation.isNone
  /\ PacketOrientation.q = <<0, 3, 0, 0>>
  /\ TargetOrientation = <<0, 1, 0>>

\* C35: a motion request issued while the proxy is still busy never shortens
\* the busy window: the ready time it sets is at least as late as the ready
\* time an earlier request had set.
C35_BusyWindowNeverShortened ==
  [][(busy /\ now < readyAt /\ sends' = sends + 1 /\ apiCall'.op \in {"move_linear", "move_cartesian"})
       => readyAt' >= readyAt]_vars

\* Everything sent so far has been ingested.
AllIngested == observed /\ toCtl = <<>> /\ Ingesting
\* C36: when the control side ingests every packet of the motion process, the
\* error status the loop itself produces for an unknown tag does not put its
\* placeholder position into the pose cache: ingesting it leaves the cache as
\* it was.
LoopError(p) == IsStatusError(p) /\ p.f[3][1] = "unknown op"
C36_PlaceholderNotCached ==
  [][(IngestNext /\ LoopError(Head(toCtl))) => cache' = cache]_vars

\* C37: while the motion process is running with both driver links held and
\* the control side has ingested everything sent so far, a status among them,
\* is_connected() of the proxy is true; the error reply
\* to one bad or failed command does not make the proxy report the backend
\* as disconnected.
C37_ProxyReportsConnected ==
  (Running /\ is_connected /\ AllIngested /\ last_status # NonList) => api_connected

\* C38: whatever packets of the motion process the control side ingests,
\* backend_name() is empty or the name of the backend in use, "rtde"; a text
\* the issuing code gave to API.print or to the command setter and that comes
\* back in a debug packet does not change it.
C38_BackendNameGenuine == api_backend \in {"", "rtde"}

\* C39: task success is per command.  When a new command has just been
\* entered, check_task_success() is false, whatever flags the code of an
\* earlier command had set.
C39_SuccessPerCommand ==
  (apiCall.op = "new_command") => ~check_task_success

=========================================================================
